---------------------------- MODULE Spec2Model ----------------------------
(***************************************************************************)
(* Model of the gKNN imputation core of data-imputation-dashboard:          *)
(*   src/imputation.py   impute_death_rate                                  *)
(*   src/validation.py   validate_imputation_testset, writeImputation       *)
(*   src/gknn.py         gKNNImputer.run                                    *)
(*                                                                         *)
(* A dataframe is a function from row labels to rows (records of the        *)
(* columns the code reads).  Floating point values are modelled as exact    *)
(* rationals <<num, den>>; NaN is the rational 0/0.  Distances are integer  *)
(* multiples of eps (1e-8), so that 1/(d + eps) is proportional to          *)
(* 1/(d + Eps) with Eps = 1 and the weighted mean is exact.                 *)
(***************************************************************************)
EXTENDS Integers, Sequences, FiniteSets, TLC

(***************************************************************************)
(* Bounds of the model.                                                     *)
(***************************************************************************)
NRows == 3          \* rows of the dataset handed to the imputer
MaxK == 2           \* largest neighbourhood size k that is tried
MaxPoints == 3      \* rows of a feature table handed to src/distance.py
MaxCoord == 2       \* largest feature value of a row
MaxIter == 2        \* values of the iterations form field
NResults == 2       \* distinct results an imputer run can return
MaxDist == 2        \* largest distance (in units of eps) in a matrix

NSocio == NRows     \* rows of the reference table = size of the matrix
Rows == 1..NRows
SocioIdx == 0..(NSocio - 1)

(***************************************************************************)
(* Values.                                                                  *)
(***************************************************************************)
\* pd.isna(socio_index): the missing Socio_Index
NaN == -1
\* eps of the inverse-distance weights, in distance units
Eps == 1

NaNVal == <<0, 0>>
IsNaN(v) == v[2] = 0
Abs(x) == IF x < 0 THEN -x ELSE x

RECURSIVE Gcd(_, _)
Gcd(a, b) == IF b = 0 THEN a ELSE Gcd(b, a % b)

\* the rational n/d in lowest terms, d > 0 (d = 0: NaN)
Rat(n, d) ==
    IF d = 0 THEN NaNVal
    ELSE LET g == Gcd(Abs(n), Abs(d))
             s == IF d < 0 THEN -1 ELSE 1
         IN  <<(s * n) \div g, (s * d) \div g>>
Num(v) == <<v, 1>>
RAdd(a, b) == Rat(a[1] * b[2] + b[1] * a[2], a[2] * b[2])
RMul(a, b) == Rat(a[1] * b[1], a[2] * b[2])
RDiv(a, b) == Rat(a[1] * b[2], a[2] * b[1])
\* float('inf')
Inf == <<1, 0>>
RSub(a, b) == Rat(a[1] * b[2] - b[1] * a[2], a[2] * b[2])
RAbs(a) == <<Abs(a[1]), a[2]>>
\* a < b for floats that may be inf
RLess(a, b) ==
    IF a = Inf THEN FALSE ELSE IF b = Inf THEN TRUE
    ELSE a[1] * b[2] < b[1] * a[2]

RECURSIVE RSum(_)
RSum(s) == IF s = <<>> THEN Num(0) ELSE RAdd(Head(s), RSum(Tail(s)))

\* the known target value row r carries in the generated datasets
Val(r) == Num(10 * r)

(***************************************************************************)
(* Small sequence helpers.                                                  *)
(***************************************************************************)
Range(s) == {s[i] : i \in DOMAIN s}
Min(S) == CHOOSE x \in S : \A y \in S : x <= y

\* the labels of S in ascending order (the dataframe's row order)
RECURSIVE Ascending(_)
Ascending(S) ==
    IF S = {} THEN <<>> ELSE <<Min(S)>> \o Ascending(S \ {Min(S)})

RECURSIVE SelectSeqBy(_, _)
SelectSeqBy(s, S) ==
    IF s = <<>> THEN <<>>
    ELSE (IF Head(s) \in S THEN <<Head(s)>> ELSE <<>>) \o SelectSeqBy(Tail(s), S)

(***************************************************************************)
(* impute_death_rate (src/imputation.py).                                   *)
(***************************************************************************)
\* allowed_indices: None, or a collection of row labels
None == [given |-> FALSE, rows |-> {}]
Only(S) == [given |-> TRUE, rows |-> S]

\* lines 57-61: the allowed set with the target row removed
AllowedSet(index, allowed_indices) ==
    IF allowed_indices.given THEN Only(allowed_indices.rows \ {index})
    ELSE allowed_indices

\* line 69: np.argsort(distances, kind="mergesort"): ascending distance,
\* equal distances in ascending index order
RECURSIVE ArgSort(_, _)
ArgSort(distances, S) ==
    IF S = {} THEN <<>>
    ELSE LET i == CHOOSE x \in S : \A y \in S :
                      \/ distances[x] < distances[y]
                      \/ (distances[x] = distances[y] /\ x <= y)
         IN  <<i>> \o ArgSort(distances, S \ {i})

\* variant: line 70 left out, the target's own index stays a candidate
SortedIndices_KeepSelf(distances, socio_index) ==
    ArgSort(distances, DOMAIN distances)
\* line 70: sorted_indices[sorted_indices != socio_index]
SortedIndices(distances, socio_index) ==
    SelectSeqBy(ArgSort(distances, DOMAIN distances),
                DOMAIN distances \ {socio_index})

\* line 82: the rows of cdc_data with this socio index, in row order
DonorRowsOf(cdc_data, neighbor_socio) ==
    Ascending({r \in DOMAIN cdc_data : cdc_data[r].Socio_Index = neighbor_socio})

\* variant: lines 87-88 left out, every row of the candidate may donate
AllowedRows_Unfiltered(donor_rows, allowed) == donor_rows
\* lines 87-88: the allowed_indices constraint at row level
AllowedRows(donor_rows, allowed) ==
    IF allowed.given THEN SelectSeqBy(donor_rows, allowed.rows) ELSE donor_rows

\* variant: the pd.notna test of line 97 left out
FirstValid_AnyTarget(cdc_data, donor_rows) ==
    IF donor_rows = <<>> THEN 0 ELSE Head(donor_rows)
\* lines 93-99: the first donor row with a non-NaN target (0: none)
RECURSIVE FirstValid(_, _)
FirstValid(cdc_data, donor_rows) ==
    IF donor_rows = <<>> THEN 0
    ELSE IF ~IsNaN(cdc_data[Head(donor_rows)].Deaths_per_100k)
         THEN Head(donor_rows)
         ELSE FirstValid(cdc_data, Tail(donor_rows))

\* variant: every candidate visited uses up one of the k slots
RECURSIVE NeighborSearch_SlotPerCandidate(_, _, _, _, _)
NeighborSearch_SlotPerCandidate(sorted_indices, valid_neighbors, cdc_data, k, allowed) ==
    IF sorted_indices = <<>> \/ k <= 0 THEN valid_neighbors
    ELSE LET neighbor_socio == Head(sorted_indices)
             donor_row == FirstValid(cdc_data,
                              AllowedRows(DonorRowsOf(cdc_data, neighbor_socio),
                                          allowed))
             found == IF donor_row = 0 THEN <<>>
                      ELSE <<[socio |-> neighbor_socio,
                              row |-> donor_row,
                              rate |-> cdc_data[donor_row].Deaths_per_100k]>>
         IN  NeighborSearch_SlotPerCandidate(Tail(sorted_indices),
                 valid_neighbors \o found, cdc_data, k - 1, allowed)
\* lines 75-107: the walk over the sorted candidates
RECURSIVE NeighborSearch(_, _, _, _, _)
NeighborSearch(sorted_indices, valid_neighbors, cdc_data, k, allowed) ==
    IF sorted_indices = <<>> THEN valid_neighbors
    ELSE IF Len(valid_neighbors) >= k THEN valid_neighbors
    ELSE LET neighbor_socio == Head(sorted_indices)
             donor_row == FirstValid(cdc_data,
                              AllowedRows(DonorRowsOf(cdc_data, neighbor_socio),
                                          allowed))
             found == IF donor_row = 0 THEN <<>>
                      ELSE <<[socio |-> neighbor_socio,
                              row |-> donor_row,
                              rate |-> cdc_data[donor_row].Deaths_per_100k]>>
         IN  NeighborSearch(Tail(sorted_indices), valid_neighbors \o found,
                            cdc_data, k, allowed)

\* line 121: zero_mask = (neighbor_distances <= 0.0)
ZeroMask(d) == d <= 0

\* lines 116-128: the estimate from the accepted donors
Estimate(valid_neighbors, distances) ==
    LET n == Len(valid_neighbors)
        zero == {i \in 1..n : ZeroMask(distances[valid_neighbors[i].socio])}
    IN  IF zero # {}
        THEN RDiv(RSum([j \in 1..Cardinality(zero) |->
                           valid_neighbors[Ascending(zero)[j]].rate]),
                  Num(Cardinality(zero)))
        ELSE LET weights == [i \in 1..n |->
                    Rat(1, distances[valid_neighbors[i].socio] + Eps)]
             IN  RDiv(RSum([i \in 1..n |-> RMul(weights[i], valid_neighbors[i].rate)]),
                      RSum(weights))

\* variant: the mask of line 135 left out, the first row of the frame answers
GetIdentifier_NoMask(cdc_data, socio) ==
    cdc_data[Head(Ascending(DOMAIN cdc_data))].County_Code
\* lines 134-140: the county code of the first row with this socio index
GetIdentifier(cdc_data, socio) ==
    LET rows == DonorRowsOf(cdc_data, socio)
    IN  IF rows = <<>> THEN "" ELSE cdc_data[Head(rows)].County_Code

\* variant: the row without a socio index gets an entry with no donors
MissingSocioResult_EmptyEntry(cdc_data, index) ==
    [status |-> "ok", value |-> NaNVal,
     neighbor_map |-> cdc_data[index].County_Code :> <<>>,
     valid_neighbors |-> <<>>]
\* lines 47-48: return (np.nan, {}) for a row without a socio index
MissingSocioResult(cdc_data, index) ==
    [status |-> "ok", value |-> NaNVal, neighbor_map |-> <<>>,
     valid_neighbors |-> <<>>]

\* lines 43-148.  status "ok": (value, neighbor_map) is returned;
\* status "ValueError": the call raised (line 110).
impute_death_rate(index, cdc_data, distance_matrix, k, allowed_indices) ==
    LET socio_index == cdc_data[index].Socio_Index IN
    IF socio_index = NaN
    THEN MissingSocioResult(cdc_data, index)
    ELSE
    LET distances == distance_matrix[socio_index]
        valid_neighbors ==
            NeighborSearch(SortedIndices(distances, socio_index), <<>>,
                           cdc_data, k, AllowedSet(index, allowed_indices))
    IN  IF valid_neighbors = <<>>
        THEN [status |-> "ValueError", value |-> NaNVal, neighbor_map |-> <<>>,
              valid_neighbors |-> <<>>]
        ELSE [status |-> "ok",
              value |-> Estimate(valid_neighbors, distances),
              neighbor_map |->
                  GetIdentifier(cdc_data, socio_index) :>
                      [i \in 1..Len(valid_neighbors) |->
                          GetIdentifier(cdc_data, valid_neighbors[i].socio)],
              valid_neighbors |-> valid_neighbors]

(***************************************************************************)
(* State.                                                                   *)
(***************************************************************************)
VARIABLES
    cdc_data,          \* the dataframe the imputer reads (cdc_file / final_cdc_data)
    distance_matrix,   \* the combined distance matrix, indexed by socio index
    pc,                \* position of the running operation
    call,              \* arguments and outcome of the last impute_death_rate call
    batch,             \* locals of the running batch operation
    search,            \* the hyperparameter search of a run and what run unpacks
    features,          \* the feature selection of a run (impFeatureKnee)
    kfold,             \* locals of validate_imputation_kfold
    outputs,           \* what run returns and impute assembles from it
    session_store,     \* src/app.py line 39: session id -> uploaded dataset
    imputation_store,  \* src/app.py line 42: cache key or session id -> entry
    response,          \* the last request served and its response
    completed,         \* cache key -> result of its first successful impute
    self_df,           \* src/gknn.py line 20: the dataset an imputer holds
    distances,         \* the matrices built by src/distance.py and their blend
    event_loop         \* the requests of the server's event loop (src/app.py line 724)

vars == <<cdc_data, distance_matrix, pc, call, batch, search, features, kfold,
          outputs, session_store, imputation_store, response, completed,
          self_df, distances, event_loop>>

\* the state of the web application (src/app.py)
web == <<session_store, imputation_store, response, completed>>

\* the state of the components that the imputation calls and loops never touch
others == <<search, features, kfold, outputs, web, self_df, distances, event_loop>>

(***************************************************************************)
(* Inputs.                                                                  *)
(***************************************************************************)
\* df_socio_econ['GEOID'] in reference-table order (src/gknn.py line 166)
Geoids == [i \in 1..NSocio |-> ToString(i - 1)]
\* a county code that no row of the reference table carries
NoGeoid == "x"
Codes == Range(Geoids) \cup {NoGeoid}

\* src/gknn.py lines 181-182: County Code -> Socio_Index, NaN when unmapped
geoid_to_index(code) ==
    IF \E i \in DOMAIN Geoids : Geoids[i] = code
    THEN (CHOOSE i \in DOMAIN Geoids : Geoids[i] = code) - 1
    ELSE NaN

\* the 'Population' column: a number, NaN, or the text "Not Available"
\* (src/validation.py line 218), kept apart from every float
NotAvailable == <<0, 0 - 1>>
Populations == {Num(100000), Num(10000), NaNVal, NotAvailable}
\* the population of row r in the generated datasets
PopulationOf(r) == IF r = 1 THEN Num(100000) ELSE IF r = 2 THEN NaNVal
                   ELSE Num(10000)

\* a row of the dataframe: row r either carries its known value or none
RowsOf(r) ==
    {[County_Code |-> c, Socio_Index |-> geoid_to_index(c), Deaths_per_100k |-> v,
      Population |-> PopulationOf(r)] :
        c \in Codes, v \in {NaNVal, Val(r)}}

Frames == {f \in [Rows -> UNION {RowsOf(r) : r \in Rows}] :
              \A r \in Rows : f[r] \in RowsOf(r)}

\* square matrices with a zero diagonal and symmetric entries in Dists; a
\* standardized (z-score) matrix has entries below zero
Dists == {0 - 2} \cup 0..MaxDist
Pairs == {p \in SocioIdx \X SocioIdx : p[1] < p[2]}
Matrices ==
    {[i \in SocioIdx |-> [j \in SocioIdx |->
          IF i = j THEN 0 ELSE IF i < j THEN u[<<i, j>>] ELSE u[<<j, i>>]]] :
        u \in [Pairs -> Dists]}

AllowedChoices == {None} \cup {Only(S) : S \in SUBSET Rows}

NoCall == [index |-> 0, k |-> 0, allowed_indices |-> None,
           ret |-> [status |-> "none", value |-> NaNVal, neighbor_map |-> <<>>,
                    valid_neighbors |-> <<>>]]

\* the locals of a batch: the caller's frame as it was handed over (input),
\* the rows still to visit (todo), the calls made so far (calls), and the
\* accumulators of the loop
NoBatch == [op |-> "none", input |-> <<>>, k |-> 0, allowed_indices |-> None,
            indices |-> <<>>, todo |-> <<>>, calls |-> <<>>,
            all_neighbor_map |-> <<>>, imputed_vals |-> <<>>,
                 imp_deaths |-> <<>>, imputed_values_dict |-> <<>>]

\* no search is running
NoSearch == [pc |-> "none"]
\* no feature selection has run
NoFeatures == [pc |-> "none"]
\* no k-fold validation has run
NoKfold == [pc |-> "none"]
\* run has not returned
NoOutputs == [pc |-> "none"]
\* no imputer has been constructed
NoFrame == <<>>
\* no matrix has been built
NoDistances == [pc |-> "none"]

\* no request has arrived
NoLoop == [requests |-> <<>>, pending |-> {}, in_flight |-> {}, started |-> {}]

\* the web application: session ids, request parameters, store keys
Sessions == {"s1"}
Algos == {"mice", "gknn", "bart", "svd"}
Iterations == 1..MaxIter
\* the 'columns' form field: two spellings of one JSON list, and a text that
\* is not JSON
ColumnsTexts == {"[\"a\"]", "[ \"a\" ]", "a"}
JSONDecodeError == "JSONDecodeError"
json_loads(text) ==
    IF text \in {"[\"a\"]", "[ \"a\" ]"} THEN <<"a">> ELSE JSONDecodeError
json_dumps(columns) == IF columns = <<"a">> THEN "[\"a\"]" ELSE "null"

\* src/app.py line 326: f"{session_id}_{algo}_{json.dumps(columns)}_{iterations}"
cache_key(session_id, algo, columns, iterations) ==
    <<session_id, algo, json_dumps(columns), iterations>>
\* src/app.py line 383: the key of a session's latest result
session_key(session_id) == <<session_id>>

CacheKeys == {cache_key(s, a, <<"a">>, n) : s \in Sessions, a \in Algos,
                                              n \in Iterations}
StoreKeys == CacheKeys \cup {session_key(s) : s \in Sessions}

\* datasets: none uploaded, a frame without rows, a frame with rows
NoDataset == "None"
EmptyDataset == "empty"
Datasets == {"d1"}
\* the results an imputer run can return
Results == 1..NResults
NoResult == 0
NoEntry == [result |-> NoResult, downloadable_csv |-> FALSE]
NoResponse == [endpoint |-> "none", session_id |-> "", algo |-> "", columns |-> "",
               iterations |-> 0, status |-> 0, body |-> NoResult, ran |-> FALSE]

WebInit ==
    /\ session_store = [s \in Sessions |-> NoDataset]
    /\ imputation_store = [key \in StoreKeys |-> NoEntry]
    /\ response = NoResponse
    /\ completed = [key \in CacheKeys |-> NoResult]

(***************************************************************************)
(* Specification of single calls of impute_death_rate.                      *)
(***************************************************************************)
Init ==
    /\ cdc_data \in Frames
    /\ distance_matrix \in Matrices
    /\ pc = "idle"
    /\ call = NoCall
    /\ batch = NoBatch
    /\ search = NoSearch
    /\ features = NoFeatures
    /\ kfold = NoKfold
    /\ outputs = NoOutputs
    /\ WebInit
    /\ self_df = NoFrame
    /\ distances = NoDistances
    /\ event_loop = NoLoop

\* variant: the accepted donors are kept in an unordered collection and come
\* out of it in another order than they went in (here: last first)
Impute_UnorderedDonors(index, k, allowed_indices) ==
    LET ret == impute_death_rate(index, cdc_data, distance_matrix, k,
                                 allowed_indices)
        Reversed(seq) == [i \in 1..Len(seq) |-> seq[Len(seq) + 1 - i]]
    IN  /\ pc = "idle"
        /\ call' = [index |-> index, k |-> k, allowed_indices |-> allowed_indices,
                    ret |-> [ret EXCEPT
                               !.valid_neighbors = Reversed(@),
                               !.neighbor_map =
                                   [key \in DOMAIN @ |-> Reversed(@[key])]]]
        /\ pc' = "returned"
        /\ UNCHANGED <<cdc_data, distance_matrix, batch, others>>

\* variant: the call stores its estimate in the target cell of the dataset
Impute_StoresEstimate(index, k, allowed_indices) ==
    LET ret == impute_death_rate(index, cdc_data, distance_matrix, k,
                                 allowed_indices)
    IN  /\ pc = "idle"
        /\ call' = [index |-> index, k |-> k, allowed_indices |-> allowed_indices,
                    ret |-> ret]
        /\ pc' = "returned"
        /\ cdc_data' = [cdc_data EXCEPT ![index].Deaths_per_100k = ret.value]
        /\ UNCHANGED <<distance_matrix, batch, others>>

\* one call impute_death_rate(index, cdc_data, distance_matrix, k, allowed_indices)
Impute(index, k, allowed_indices) ==
    /\ pc = "idle"
    /\ call' = [index |-> index, k |-> k, allowed_indices |-> allowed_indices,
                ret |-> impute_death_rate(index, cdc_data, distance_matrix, k,
                                          allowed_indices)]
    /\ pc' = "returned"
    /\ UNCHANGED <<cdc_data, distance_matrix, batch, others>>

Next ==
    \E index \in Rows, k \in 1..MaxK, allowed_indices \in AllowedChoices :
        Impute(index, k, allowed_indices)

Spec == Init /\ [][Next]_vars

(***************************************************************************)
(* Batch operations: validate_imputation_testset and writeImputation        *)
(* (src/validation.py), and the held-out branch of gKNNImputer.run          *)
(* (src/gknn.py).  The target column is 'Deaths_per_100k'.                  *)
(***************************************************************************)
\* a boolean-mask selection: the rows of S, with their labels
Select(frame, S) == [r \in S |-> frame[r]]

\* frame.at[idx, 'Deaths_per_100k'] = v
SetTarget(frame, idx, v) == [frame EXCEPT ![idx].Deaths_per_100k = v]

\* src/validation.py line 143: final_cdc_data.loc[test_indices, target] = np.nan
MaskRows(frame, S) ==
    [r \in DOMAIN frame |->
        IF r \in S THEN [frame[r] EXCEPT !.Deaths_per_100k = NaNVal] ELSE frame[r]]

\* dict.update: the entries of neighbor_map replace those of all_neighbor_map
Update(all_neighbor_map, neighbor_map) == neighbor_map @@ all_neighbor_map

\* src/validation.py line 153: (imputed_value * population) / 100_000
ImpDeaths(imputed_value, population) ==
    RDiv(RMul(imputed_value, population), Num(100000))

\* the fixed ceiling of an estimated count (src/validation.py line 222)
Ceiling == 9

\* src/validation.py lines 219-225: int(min(9, imputed_value * population /
\* 100_000)) for a known population, NaN otherwise
ImpD(imputed_value, population) ==
    IF IsNaN(population) THEN NaNVal
    ELSE LET deaths == ImpDeaths(imputed_value, population)
             least == IF RLess(Num(Ceiling), deaths) THEN Num(Ceiling) ELSE deaths
         IN  Num(least[1] \div least[2])

\* src/validation.py line 218: replace("Not Available", np.nan) on the
\* 'Population' column
ReplaceNotAvailable(cdc_file) ==
    [r \in DOMAIN cdc_file |->
        IF cdc_file[r].Population = NotAvailable
        THEN [cdc_file[r] EXCEPT !.Population = NaNVal] ELSE cdc_file[r]]

\* src/gknn.py lines 181-187: map the county codes, keep the rows with a
\* socio index and a known target
HeldOutFrame(df) ==
    LET mapped == [r \in DOMAIN df |->
                      [df[r] EXCEPT !.Socio_Index = geoid_to_index(df[r].County_Code)]]
    IN  Select(mapped, {r \in DOMAIN mapped :
                           /\ mapped[r].Socio_Index # NaN
                           /\ ~IsNaN(mapped[r].Deaths_per_100k)})

\* src/gknn.py line 193: the number of rows sample(frac=0.2) draws, round(0.2 n)
SampleSize(n) == (2 * n + 5) \div 10

\* the orders in which the rows of S can be listed
RECURSIVE Orders(_)
Orders(S) ==
    IF S = {} THEN {<<>>}
    ELSE UNION {{<<r>> \o o : o \in Orders(S \ {r})} : r \in S}

\* src/validation.py lines 138-148: the entry of validate_imputation_testset
StartTestset(op, test_indices, final_cdc_data, k, allowed_indices) ==
    /\ cdc_data' = MaskRows(final_cdc_data, Range(test_indices))
    /\ batch' = [op |-> op, input |-> final_cdc_data, k |-> k,
                 allowed_indices |-> allowed_indices,
                 indices |-> test_indices, todo |-> test_indices, calls |-> <<>>,
                 all_neighbor_map |-> <<>>, imputed_vals |-> <<>>,
                 imp_deaths |-> <<>>, imputed_values_dict |-> <<>>]
    /\ pc' = "loop"
    /\ UNCHANGED <<distance_matrix, call, others>>

\* src/gknn.py lines 169-222, death_threshold = ['random']: a random fifth of
\* the rows is held out, then validate_imputation_testset(test rows,
\* final_cdc_data, D_combined, target, k=best_k) is called
RunHeldOutRandom(test_idx, k) ==
    /\ pc = "idle"
    /\ LET final_cdc_data == HeldOutFrame(cdc_data)
       IN  /\ Range(test_idx) \subseteq DOMAIN final_cdc_data
           /\ Len(test_idx) = SampleSize(Cardinality(DOMAIN final_cdc_data))
           /\ test_idx \in Orders(Range(test_idx))
           /\ StartTestset("run", test_idx, final_cdc_data, k, None)

\* src/gknn.py lines 169-222, death_threshold = [t] or an interval: the rows
\* whose 'Deaths' meet the threshold are held out, in row order
RunHeldOutThreshold(test, k) ==
    /\ pc = "idle"
    /\ LET final_cdc_data == HeldOutFrame(cdc_data)
       IN  /\ test \subseteq DOMAIN final_cdc_data
           /\ StartTestset("run", Ascending(test), final_cdc_data, k, None)

\* src/validation.py lines 119-148: validate_imputation_testset called on
\* test rows with known target values, allowed_indices left out or given
ValidateTestset(test, k, allowed_indices) ==
    /\ pc = "idle"
    /\ test # {}
    /\ \A r \in test : ~IsNaN(cdc_data[r].Deaths_per_100k)
    /\ StartTestset("testset", Ascending(test), cdc_data, k, allowed_indices)

\* src/validation.py lines 149-155: one iteration of the loop over test_indices
TestsetStep ==
    /\ pc = "loop"
    /\ batch.op \in {"run", "testset"}
    /\ batch.todo # <<>>
    /\ LET idx == Head(batch.todo)
           ret == impute_death_rate(idx, cdc_data, distance_matrix, batch.k,
                                    batch.allowed_indices)
           this == [index |-> idx, k |-> batch.k,
                    allowed_indices |-> batch.allowed_indices, ret |-> ret]
       IN  /\ call' = this
           /\ IF ret.status = "ValueError"
              THEN /\ pc' = "raised"
                   /\ batch' = [batch EXCEPT !.calls = Append(@, this)]
                   /\ UNCHANGED cdc_data
              ELSE IF cdc_data[idx].Population = NotAvailable
              THEN \* line 153: a float times a text raises TypeError
                   /\ pc' = "raised"
                   /\ batch' = [batch EXCEPT
                          !.calls = Append(@, this),
                          !.all_neighbor_map = Update(@, ret.neighbor_map)]
                   /\ UNCHANGED cdc_data
              ELSE /\ pc' = "loop"
                   /\ cdc_data' = SetTarget(cdc_data, idx, ret.value)
                   /\ batch' = [batch EXCEPT
                          !.todo = Tail(@),
                          !.calls = Append(@, this),
                          !.all_neighbor_map = Update(@, ret.neighbor_map),
                          !.imp_deaths = Append(@, ImpDeaths(ret.value,
                                                   cdc_data[idx].Population)),
                          !.imputed_vals = Append(@, ret.value)]
    /\ UNCHANGED <<distance_matrix, others>>

\* src/validation.py lines 160-196: the metrics over the finite estimates;
\* mean_absolute_error raises on an empty sample
TestsetReturn ==
    /\ pc = "loop"
    /\ batch.op \in {"run", "testset"}
    /\ batch.todo = <<>>
    /\ pc' = IF \E i \in DOMAIN batch.imputed_vals : ~IsNaN(batch.imputed_vals[i])
             THEN "returned" ELSE "raised"
    /\ UNCHANGED <<cdc_data, distance_matrix, call, batch, others>>

\* src/validation.py line 203
MissingIndices(cdc_file) ==
    Ascending({r \in DOMAIN cdc_file :
                  /\ IsNaN(cdc_file[r].Deaths_per_100k)
                  /\ cdc_file[r].Socio_Index # NaN})

\* src/validation.py lines 198-211: the entry of writeImputation
WriteImputation(k) ==
    /\ pc = "idle"
    /\ batch' = [op |-> "write", input |-> cdc_data, k |-> k,
                 allowed_indices |-> None,
                 indices |-> MissingIndices(cdc_data),
                 todo |-> MissingIndices(cdc_data), calls |-> <<>>,
                 all_neighbor_map |-> <<>>, imputed_vals |-> <<>>,
                 imp_deaths |-> <<>>, imputed_values_dict |-> <<>>]
    /\ pc' = "loop"
    /\ UNCHANGED <<cdc_data, distance_matrix, call, others>>

\* src/validation.py lines 212-232: one iteration of the loop over
\* missing_indices
WriteStep ==
    /\ pc = "loop"
    /\ batch.op = "write"
    /\ batch.todo # <<>>
    /\ LET idx == Head(batch.todo)
           ret == impute_death_rate(idx, cdc_data, distance_matrix, batch.k, None)
           this == [index |-> idx, k |-> batch.k, allowed_indices |-> None,
                    ret |-> ret]
       IN  /\ call' = this
           /\ IF ret.status = "ValueError"
              THEN /\ pc' = "raised"
                   /\ batch' = [batch EXCEPT !.calls = Append(@, this)]
                   /\ UNCHANGED cdc_data
              ELSE /\ pc' = "loop"
                   /\ cdc_data' = IF IsNaN(ret.value) THEN cdc_data
                                  ELSE ReplaceNotAvailable(
                                           SetTarget(cdc_data, idx, ret.value))
                   /\ batch' = [batch EXCEPT
                          !.todo = Tail(@),
                          !.calls = Append(@, this),
                          !.all_neighbor_map = Update(@, ret.neighbor_map),
                          !.imputed_values_dict =
                              IF IsNaN(ret.value) THEN @
                              ELSE (idx :> ImpD(ret.value,
                                        ReplaceNotAvailable(cdc_data)[idx].Population))
                                   @@ @,
                          !.imputed_vals = Append(@, ret.value)]
    /\ UNCHANGED <<distance_matrix, others>>

\* src/validation.py lines 234-255: the results are read off the frame
WriteReturn ==
    /\ pc = "loop"
    /\ batch.op = "write"
    /\ batch.todo = <<>>
    /\ pc' = "returned"
    /\ UNCHANGED <<cdc_data, distance_matrix, call, batch, others>>

\* the combined matrices of a run: alpha * Dsoc + beta * Dgeo of two
\* min-max scaled matrices is symmetric and zero on the diagonal; distinct
\* counties lie at a positive distance
RunMatrices == {m \in Matrices : \A i, j \in SocioIdx : i # j => m[i][j] > 0}

BatchInit ==
    /\ cdc_data \in Frames
    /\ distance_matrix \in RunMatrices
    /\ pc = "idle"
    /\ call = NoCall
    /\ batch = NoBatch
    /\ search = NoSearch
    /\ features = NoFeatures
    /\ kfold = NoKfold
    /\ outputs = NoOutputs
    /\ WebInit
    /\ self_df = NoFrame
    /\ distances = NoDistances
    /\ event_loop = NoLoop

BatchNext ==
    \/ \E S \in SUBSET Rows, k \in 1..MaxK :
          \/ \E test_idx \in Orders(S) : RunHeldOutRandom(test_idx, k)
          \/ RunHeldOutThreshold(S, k)
          \/ ValidateTestset(S, k, None)
          \/ ValidateTestset(S, k, Only(Rows \ S))
    \/ \E k \in 1..MaxK : WriteImputation(k)
    \/ TestsetStep
    \/ TestsetReturn
    \/ WriteStep
    \/ WriteReturn

BatchSpec == BatchInit /\ [][BatchNext]_vars

(***************************************************************************)
(* Properties of single calls (checked under Spec).                         *)
(***************************************************************************)
Called == call.index # 0
\* the socio index of the target row of the last call
TargetSocio == cdc_data[call.index].Socio_Index
Searched == Called /\ TargetSocio # NaN
Donors == call.ret.valid_neighbors
DonorSocios == {Donors[j].socio : j \in DOMAIN Donors}
\* the distance row the last call read
DistRow == distance_matrix[TargetSocio]
\* a is listed before b in ascending distance, ties by lower index
Before(a, b) == DistRow[a] < DistRow[b] \/ (DistRow[a] = DistRow[b] /\ a < b)
Known(r) == ~IsNaN(cdc_data[r].Deaths_per_100k)
\* the candidates with a row that may donate: another socio index, a known
\* target, and a row label in allowed_indices when that is given
Admissible ==
    {c \in SocioIdx \ {TargetSocio} :
        \E r \in DOMAIN cdc_data :
            /\ cdc_data[r].Socio_Index = c
            /\ Known(r)
            /\ call.allowed_indices.given => r \in call.allowed_indices.rows}
SmallerOf(a, b) == IF a <= b THEN a ELSE b

\* C2: with allowed_indices = S given, every donor value of a returned
\* estimate was read from a row whose label is in S and is not the target's.
C2_DonorsWithinAllowed ==
    (Called /\ call.allowed_indices.given /\ call.ret.status = "ok") =>
        \A j \in DOMAIN Donors :
            /\ Donors[j].row \in call.allowed_indices.rows
            /\ Donors[j].row # call.index
            /\ cdc_data[Donors[j].row].Socio_Index = Donors[j].socio
            /\ Donors[j].rate = cdc_data[Donors[j].row].Deaths_per_100k

\* a call that returned an estimate although a row outside S with a known
\* target lies nearer than an accepted donor
C2_Witness ==
    /\ Searched /\ call.allowed_indices.given /\ call.ret.status = "ok"
    /\ Donors # <<>>
    /\ \E r \in DOMAIN cdc_data :
          /\ r \notin call.allowed_indices.rows
          /\ Known(r)
          /\ cdc_data[r].Socio_Index \in SocioIdx \ {TargetSocio}
          /\ Before(cdc_data[r].Socio_Index, Donors[1].socio)

\* C3: no accepted donor carries the target's own socio index, so neither
\* the target row nor a row sharing its socio index enters the estimate.
C3_NeverOwnSocioIndex ==
    Searched =>
        \A j \in DOMAIN Donors :
            /\ Donors[j].socio # TargetSocio
            /\ cdc_data[Donors[j].row].Socio_Index # TargetSocio
            /\ Donors[j].row # call.index

\* an estimate was returned although the target's self-distance is not the
\* smallest of its row and another row with a known target shares its index
C3_Witness ==
    /\ Searched /\ call.ret.status = "ok" /\ Donors # <<>>
    /\ \E c \in SocioIdx : DistRow[c] < DistRow[TargetSocio]
    /\ Known(call.index)
    /\ \E r \in DOMAIN cdc_data :
          r # call.index /\ cdc_data[r].Socio_Index = TargetSocio /\ Known(r)

\* C4: the accepted donors are the first min(k, m) of the m admissible
\* candidates in ascending distance (ties by lower index), one donor per
\* socio index; inadmissible candidates use up no slot, and with m >= 1 an
\* estimate is returned.
C4_NearestAdmissible ==
    Searched =>
        LET m == Cardinality(Admissible) IN
        /\ Len(Donors) = SmallerOf(call.k, m)
        /\ DonorSocios \subseteq Admissible
        /\ \A i, j \in DOMAIN Donors :
              i < j => Before(Donors[i].socio, Donors[j].socio)
        /\ \A j \in DOMAIN Donors : \A c \in Admissible \ DonorSocios :
              Before(Donors[j].socio, c)
        /\ m >= 1 => (call.ret.status = "ok" /\ ~IsNaN(call.ret.value))

\* fewer admissible candidates than k, and an inadmissible candidate that has
\* rows lies nearer than the accepted donor
C4_Witness ==
    /\ Searched /\ call.ret.status = "ok"
    /\ Cardinality(Admissible) < call.k
    /\ \E c \in SocioIdx \ (Admissible \cup {TargetSocio}) :
          /\ DonorRowsOf(cdc_data, c) # <<>>
          /\ Before(c, Donors[1].socio)

\* C7: when no candidate is admissible the call fails with the ValueError
\* and changes neither the dataset nor the distance matrix.
C7_NoValidNeighbors ==
    [][(call' # call /\ Searched' /\ Admissible' = {}) =>
          /\ call'.ret.status = "ValueError"
          /\ cdc_data' = cdc_data
          /\ distance_matrix' = distance_matrix]_vars

\* the call failed because allowed_indices excludes every row of every
\* candidate, although candidates with a known target exist
C7_Witness ==
    /\ Searched /\ call.allowed_indices.given
    /\ call.ret.status = "ValueError"
    /\ \A c \in SocioIdx \ {TargetSocio} :
          \E r \in DOMAIN cdc_data : cdc_data[r].Socio_Index = c /\ Known(r)

\* the donors of the last call at distance exactly 0
ZeroDonors == {j \in DOMAIN Donors : DistRow[Donors[j].socio] = 0}
MeanOver(J) ==
    RDiv(RSum([i \in 1..Cardinality(J) |-> Donors[Ascending(J)[i]].rate]),
         Num(Cardinality(J)))

\* C9: if an accepted donor lies at distance exactly 0, the estimate is the
\* unweighted mean of the zero-distance donors' values alone.
C9_TieRule ==
    (Searched /\ call.ret.status = "ok" /\ ZeroDonors # {}) =>
        call.ret.value = MeanOver(ZeroDonors)

\* C10: if no accepted donor lies at distance exactly 0, the estimate is
\* sum(w_i * v_i) / sum(w_i) over all accepted donors, w_i = 1 / (d_i + eps).
C10_WeightedMean ==
    (Searched /\ call.ret.status = "ok" /\ ZeroDonors = {}) =>
        LET w == [j \in DOMAIN Donors |-> Rat(1, DistRow[Donors[j].socio] + Eps)]
        IN  call.ret.value =
                RDiv(RSum([j \in DOMAIN Donors |-> RMul(w[j], Donors[j].rate)]),
                     RSum(w))

DonorRows(c) == {c.ret.valid_neighbors[j].row : j \in DOMAIN c.ret.valid_neighbors}

C5_ObservedDonorsOnly ==
    batch.op = "write" =>
        \A i \in DOMAIN batch.calls :
            \A j \in DOMAIN batch.calls[i].ret.valid_neighbors :
                LET d == batch.calls[i].ret.valid_neighbors[j]
                IN  d.rate = batch.input[d.row].Deaths_per_100k

\* C6: a row whose donor search finds no donor does not abort the batch:
\* the batch is never cut short by the ValueError while a later row, for
\* which an estimate can be computed, is still unvisited.
C6_BatchContinues ==
    ~(/\ pc = "raised"
      /\ call.ret.status = "ValueError"
      /\ \E i \in 2..Len(batch.todo) :
            LET later == impute_death_rate(batch.todo[i], cdc_data, distance_matrix,
                                           batch.k, batch.allowed_indices)
            IN  later.status = "ok" /\ ~IsNaN(later.value))

\* C8: a row without a socio index yields (NaN, {}) without raising; in a
\* batch it adds no neighbor-map entry, keeps a NaN target, and the loop goes
\* on with the next row; writeImputation does not visit it at all.
C8_MissingSocioSkipped ==
    /\ \A i \in DOMAIN batch.calls :
          LET c == batch.calls[i] IN
          batch.input[c.index].Socio_Index = NaN =>
              /\ c.ret.status = "ok"
              /\ IsNaN(c.ret.value)
              /\ c.ret.neighbor_map = <<>>
              /\ IsNaN(cdc_data[c.index].Deaths_per_100k)
              /\ i = Len(batch.calls) => Len(batch.todo) = Len(batch.indices) - i
    /\ \A key \in DOMAIN batch.all_neighbor_map :
          \E i \in DOMAIN batch.calls :
              /\ batch.input[batch.calls[i].index].Socio_Index # NaN
              /\ key \in DOMAIN batch.calls[i].ret.neighbor_map
    /\ batch.op = "write" =>
          \A r \in DOMAIN batch.input :
              batch.input[r].Socio_Index = NaN =>
                  /\ r \notin Range(batch.indices)
                  /\ cdc_data[r] = batch.input[r]

\* a test batch returned after visiting a row without a socio index for each
\* k, with rows visited after it
C8_Witness ==
    /\ pc = "returned" /\ batch.op = "testset" /\ batch.k = MaxK
    /\ \E i \in DOMAIN batch.calls :
          /\ i < Len(batch.calls)
          /\ batch.input[batch.calls[i].index].Socio_Index = NaN

(***************************************************************************)
(* The hyperparameter search: objective and bayesian_search                 *)
(* (src/gridSearch.py), and the lines of gKNNImputer.run that call it and   *)
(* unpack its result (src/gknn.py lines 208-218).                           *)
(***************************************************************************)
AlphaDen == 2       \* the sampled alphas are 0, 1/AlphaDen, ..., 1
NTrials == 2        \* trials of a study (n_trials)
\* src/gknn.py line 212: num_samples
NumSamples == 300
\* src/gridSearch.py line 90: the choices of k
Ks == {1, 3, 5, 7}


\* src/distance.py lines 9-15, 45-51: a min-max scaled euclidean matrix is
\* symmetric with a zero diagonal and its largest entry is the unit; the
\* entries are in units of AlphaDen * eps, distinct counties at a positive
\* distance
ScaledMatrices ==
    {m \in RunMatrices : \E i, j \in SocioIdx : m[i][j] = MaxDist}
\* the geographic matrices tried: counties 0 and 1 lie farthest apart, 0 and
\* 2 nearest
GeoMatrices ==
    {m \in ScaledMatrices : m[0][1] = MaxDist /\ m[0][2] = Eps}

\* src/gridSearch.py line 98: alpha * Dsoc + beta * Dgeo for alpha =
\* a / AlphaDen, in units of eps
CombinedMatrix(a, Dsoc, Dgeo) ==
    [i \in SocioIdx |-> [j \in SocioIdx |->
        a * Dsoc[i][j] + (AlphaDen - a) * Dgeo[i][j]]]

\* the combined matrices of all trials, tabulated
CombinedTable ==
    [a \in 0..AlphaDen |-> [Dsoc \in ScaledMatrices |-> [Dgeo \in GeoMatrices |->
        CombinedMatrix(a, Dsoc, Dgeo)]]]

\* src/gridSearch.py lines 101-102: random.sample(known_indices,
\* min(num_samples, len(known_indices))).  The rows of a sample are listed in
\* row order: the loop reads cdc_data only, so neither the estimates nor
\* whether one of them raises depends on the order of the visits.
ValidationSamples(cdc, num_samples) ==
    LET known_indices == {r \in DOMAIN cdc : ~IsNaN(cdc[r].Deaths_per_100k)}
        n == SmallerOf(num_samples, Cardinality(known_indices))
    IN  {Ascending(S) : S \in {T \in SUBSET known_indices : Cardinality(T) = n}}

\* src/gridSearch.py lines 108-115: the loop over the sample collects the
\* absolute errors |actual - imputed| of the rows that got an estimate; a
\* ValueError of impute_death_rate leaves the loop.  SampleRow is the body of
\* the loop for the row idx whose call returned ret.
RECURSIVE SampleErrors(_, _, _, _, _)
RECURSIVE SampleRow(_, _, _, _, _, _, _)
SampleRow(ret, idx, rest, errors, cdc, D_combined, k) ==
    IF ret.status = "ValueError"
    THEN [status |-> "ValueError", errors |-> errors]
    ELSE SampleErrors(rest,
             IF IsNaN(ret.value) THEN errors
             ELSE Append(errors, RAbs(RSub(cdc[idx].Deaths_per_100k, ret.value))),
             cdc, D_combined, k)
SampleErrors(validation_indices, errors, cdc, D_combined, k) ==
    IF validation_indices = <<>> THEN [status |-> "ok", errors |-> errors]
    ELSE SampleRow(impute_death_rate(Head(validation_indices), cdc, D_combined,
                                     k, None),
                   Head(validation_indices), Tail(validation_indices), errors,
                   cdc, D_combined, k)

\* src/gridSearch.py lines 117-123: inf when no row got an estimate, else the
\* mean absolute error
TrialValue(loop) ==
    [status |-> loop.status,
     value |-> IF loop.status = "ValueError" \/ loop.errors = <<>> THEN Inf
               ELSE RDiv(RSum(loop.errors), Num(Len(loop.errors)))]

\* src/gridSearch.py lines 87-123: the value of one trial, or the exception
\* that leaves it
objective(a, k, cdc, Dsoc, Dgeo, validation_indices) ==
    TrialValue(SampleErrors(validation_indices, <<>>, cdc,
                            CombinedTable[a][Dsoc][Dgeo], k))

NoBest == [alpha |-> NaNVal, k |-> 0, value |-> Inf]
NoMatrix == <<>>

\* src/gridSearch.py lines 125-128: bayesian_search creates a study; 'samples'
\* lists the validation rows of its trials so far, 'earlier' those of an
\* earlier search on the same inputs
CreateStudy(Dsoc, Dgeo, num_samples, earlier) ==
    [pc |-> "optimize", Dsoc |-> Dsoc, Dgeo |-> Dgeo, trials |-> 0,
     raised_at |-> "", best |-> NoBest, best_params |-> {},
     best_alpha |-> NaNVal, best_beta |-> NaNVal,
     best_k |-> NaNVal, D_combined |-> NoMatrix,
     num_samples |-> num_samples, samples |-> <<>>, earlier |-> earlier]

\* src/gknn.py lines 208-212: run computes Dsoc and Dgeo and enters
\* bayesian_search(training_data, ..., num_samples=300), which creates the
\* study
BayesianSearch ==
    /\ search.pc = "none"
    /\ \E Dsoc \in ScaledMatrices, Dgeo \in GeoMatrices :
          search' = CreateStudy(Dsoc, Dgeo, NumSamples, <<>>)
    /\ UNCHANGED <<cdc_data, distance_matrix, pc, call, batch, features, kfold, outputs,
                   web, self_df, distances, event_loop>>

\* src/gridSearch.py line 129: one trial of study.optimize.  An exception of
\* the objective is not caught (catch=()) and ends the study; a finite or
\* infinite value completes the trial, and the study keeps the first trial of
\* least value as its best.
AfterTrial(study, a, k, result, validation_indices) ==
    IF result.status = "ValueError"
    THEN [study EXCEPT !.pc = "raised", !.raised_at = "objective",
                       !.samples = Append(@, validation_indices)]
    ELSE [study EXCEPT
             !.trials = @ + 1,
             !.samples = Append(@, validation_indices),
             !.best = IF study.trials = 0 \/ RLess(result.value, @.value)
                      THEN [alpha |-> Rat(a, AlphaDen), k |-> k,
                            value |-> result.value]
                      ELSE @]

Trial ==
    /\ search.pc = "optimize"
    /\ search.trials < NTrials
    /\ \E a \in 0..AlphaDen, k \in Ks :
       \E validation_indices \in ValidationSamples(cdc_data, search.num_samples) :
          search' = AfterTrial(search, a, k,
                               objective(a, k, cdc_data, search.Dsoc, search.Dgeo,
                                         validation_indices),
                               validation_indices)
    /\ UNCHANGED <<cdc_data, distance_matrix, pc, call, batch, features, kfold, outputs,
                   web, self_df, distances, event_loop>>

\* src/gridSearch.py lines 131-136: the best parameters are returned as a
\* set literal {best_alpha, best_beta, best_k}; equal numbers are one element
SearchReturn ==
    /\ search.pc = "optimize"
    /\ search.trials = NTrials
    /\ search' = [search EXCEPT
            !.pc = "returned",
            !.best_params = {search.best.alpha,
                             RSub(Num(1), search.best.alpha),
                             Num(search.best.k)}]
    /\ UNCHANGED <<cdc_data, distance_matrix, pc, call, batch, features, kfold, outputs,
                   web, self_df, distances, event_loop>>

\* src/gknn.py lines 216-218: best_alpha, best_beta, best_k = best_params
\* takes the elements in the set's iteration order, which the language leaves
\* open, and raises ValueError unless there are exactly three; then the final
\* combined matrix is built
Unpack ==
    /\ search.pc = "returned"
    /\ IF Cardinality(search.best_params) # 3
       THEN search' = [search EXCEPT !.pc = "raised", !.raised_at = "unpack"]
       ELSE \E order \in Orders(search.best_params) :
               search' = [search EXCEPT
                   !.pc = "unpacked",
                   !.best_alpha = order[1],
                   !.best_beta = order[2],
                   !.best_k = order[3],
                   !.D_combined =
                       [i \in SocioIdx |-> [j \in SocioIdx |->
                           RAdd(RMul(order[1], Num(search.Dsoc[i][j])),
                                RMul(order[2], Num(search.Dgeo[i][j])))]]]
    /\ UNCHANGED <<cdc_data, distance_matrix, pc, call, batch, features, kfold, outputs,
                   web, self_df, distances, event_loop>>

\* src/gknn.py lines 183-200: the training data of a run are the rows with a
\* socio index and a known target
SearchInit ==
    /\ cdc_data \in {HeldOutFrame(f) : f \in Frames}
    /\ distance_matrix = [i \in SocioIdx |-> [j \in SocioIdx |-> 0]]
    /\ pc = "idle"
    /\ call = NoCall
    /\ batch = NoBatch
    /\ search = NoSearch
    /\ features = NoFeatures
    /\ kfold = NoKfold
    /\ outputs = NoOutputs
    /\ WebInit
    /\ self_df = NoFrame
    /\ distances = NoDistances
    /\ event_loop = NoLoop

SearchNext ==
    \/ BayesianSearch
    \/ Trial
    \/ SearchReturn
    \/ Unpack

SearchSpec == SearchInit /\ [][SearchNext]_vars

\* C11: what run unpacks is the best trial's alpha, beta = 1 - alpha and k,
\* and the unpacking never fails.
C11_UnpackedAreBest ==
    /\ ~(search.pc = "raised" /\ search.raised_at = "unpack")
    /\ search.pc = "unpacked" =>
          /\ search.best_alpha = search.best.alpha
          /\ search.best_beta = RSub(Num(1), search.best.alpha)
          /\ search.best_k = Num(search.best.k)

\* C12: a trial never ends the search: rows without an estimate, also by the
\* ValueError of the donor search, are left out of the trial's error, a trial
\* without any estimate is worth inf, and the search returns best parameters.
C12_TrialsNonFatal ==
    /\ ~(search.pc = "raised" /\ search.raised_at = "objective")
    /\ search.pc = "returned" => search.best_params # {}

(***************************************************************************)
(* Feature selection: gKNNImputer.impFeatureKnee (src/gknn.py lines 69-88), *)
(* the same code as FeatureImportance.impFeatureKnee                        *)
(* (src/featureImportance.py lines 126-142).  The frame of importances is   *)
(* indexed by feature name; a feature is written as the rank of its name in *)
(* alphabetical order, a score in tenths.                                   *)
(***************************************************************************)
NFeatures == 3      \* feature names
MaxScore == 5       \* largest Combined score, in tenths
\* min_combined = 0.3, in tenths
MinCombined == 3

FeatureNames == 1..NFeatures
\* the frames of importances: some features, each with a Combined score
ImportanceFrames ==
    UNION {[F -> 0..MaxScore] : F \in SUBSET FeatureNames}

\* sort_values(by='Combined', ascending=False): the index in an order of
\* descending score; the order among equal scores is not fixed
SortValues(Combined) ==
    {o \in Orders(DOMAIN Combined) :
        \A i, j \in DOMAIN o : i < j => Combined[o[i]] >= Combined[o[j]]}

\* KneeLocator(x, y, ...).knee: one of the x values 1..n, or None (0)
NoKnee == 0
Knees(n) == {NoKnee} \cup 1..n

\* Index.union(other) with the default sort=None: the result is sorted,
\* except when the indexes are equal or one of them is empty
IndexUnion(self, other) ==
    IF other = <<>> \/ self = other THEN self
    ELSE IF self = <<>> THEN other
    ELSE Ascending(Range(self) \cup Range(other))

\* lines 76-88 of src/gknn.py: the knee prefix, the threshold rows, their
\* union, and the rows of sorted_df in the order of the union
impFeatureKnee(Combined, sorted_df, knee) ==
    LET knee_df == IF knee # NoKnee THEN SubSeq(sorted_df, 1, knee) ELSE <<>>
        thresh_df == SelectSeqBy(sorted_df,
                         {f \in DOMAIN Combined : Combined[f] >= MinCombined})
    IN  IndexUnion(knee_df, thresh_df)

\* one call impFeatureKnee(socio_imp_features)
ImpFeatureKnee ==
    /\ features.pc = "idle"
    /\ \E sorted_df \in SortValues(features.Combined) :
       \E knee \in Knees(Len(sorted_df)) :
          features' = [features EXCEPT
              !.pc = "returned",
              !.sorted_df = sorted_df,
              !.knee = knee,
              !.selected = impFeatureKnee(features.Combined, sorted_df, knee)]
    /\ UNCHANGED <<cdc_data, distance_matrix, pc, call, batch, search, kfold, outputs,
                   web, self_df, distances, event_loop>>

KneeInit ==
    /\ cdc_data = <<>>
    /\ distance_matrix = <<>>
    /\ pc = "idle"
    /\ call = NoCall
    /\ batch = NoBatch
    /\ search = NoSearch
    /\ kfold = NoKfold
    /\ outputs = NoOutputs
    /\ WebInit
    /\ self_df = NoFrame
    /\ distances = NoDistances
    /\ event_loop = NoLoop
    /\ \E Combined \in ImportanceFrames :
          features = [pc |-> "idle", Combined |-> Combined, sorted_df |-> <<>>,
                      knee |-> NoKnee, selected |-> <<>>]

KneeNext == ImpFeatureKnee

KneeSpec == KneeInit /\ [][KneeNext]_vars

\* C15: the result lists exactly the features of the knee prefix or with
\* score >= 0.3, each once, in descending order of score (without a knee:
\* exactly the features with score >= 0.3, in descending order).
C15_KneeUnionDescending ==
    features.pc = "returned" =>
        LET Combined == features.Combined
            selected == features.selected
            prefix == {features.sorted_df[i] : i \in 1..features.knee}
            above == {f \in DOMAIN Combined : Combined[f] >= MinCombined}
        IN  /\ Range(selected) = prefix \cup above
            /\ Len(selected) = Cardinality(prefix \cup above)
            /\ \A i, j \in DOMAIN selected :
                  i < j => Combined[selected[i]] >= Combined[selected[j]]

(***************************************************************************)
(* validate_imputation_kfold (src/validation.py lines 9-117).               *)
(***************************************************************************)
\* lines 41-42: the rows with a target and a socio index
KnownRows(frame) ==
    Select(frame, {r \in DOMAIN frame :
                      /\ ~IsNaN(frame[r].Deaths_per_100k)
                      /\ frame[r].Socio_Index # NaN})

\* KFold.split: the first n % n_splits folds have one sample more
FoldSize(n, n_splits, i) == (n \div n_splits) + (IF i <= n % n_splits THEN 1 ELSE 0)

\* line 46-48: KFold(n_splits, shuffle=True) deals the samples into n_splits
\* disjoint test folds of these sizes; which sample goes where is the shuffle
KFoldSplits(labels, n_splits) ==
    {f \in [1..n_splits -> SUBSET labels] :
        /\ UNION {f[i] : i \in 1..n_splits} = labels
        /\ \A i \in 1..n_splits :
              Cardinality(f[i]) = FoldSize(Cardinality(labels), n_splits, i)
        /\ \A i, j \in 1..n_splits : i # j => f[i] \cap f[j] = {}}

\* variant: the fold masks its rows in the frame the previous fold left
FoldData_Accumulating(data, previous, test_labels) ==
    MaskRows(IF previous = <<>> THEN data ELSE previous, test_labels)
\* lines 54-56: fold_data = cdc_data.copy(), with the target of the fold's
\* test rows set to NaN
FoldData(data, previous, test_labels) == MaskRows(data, test_labels)

\* variant: the absolute errors are summed and not averaged
MeanAbsoluteError_Sum(errors) == RSum(errors)
\* mean_absolute_error(actual_vals, imputed_vals)
MeanAbsoluteError(errors) == RDiv(RSum(errors), Num(Len(errors)))

\* np.max(vals) - np.min(vals) of a non-empty collection of finite values
RangeVal(vals) ==
    RSub(CHOOSE x \in vals : \A y \in vals : ~RLess(x, y),
         CHOOSE x \in vals : \A y \in vals : ~RLess(y, x))

\* lines 75-76: nrmse = rmse / range_val if range_val != 0 else np.nan.  The
\* root of the mean squared error is a finite number, here called "number";
\* only whether nrmse is NaN is kept
Nrmse(actual_vals) ==
    IF RangeVal(Range(actual_vals)) # Num(0) THEN "number" ELSE "nan"

\* np.mean(list) if list else np.nan, for a list of finite rationals
MeanOrNaN(list) == IF list = <<>> THEN NaNVal ELSE RDiv(RSum(list), Num(Len(list)))

\* line 92: np.mean(nrmse_list) if nrmse_list else np.nan; the mean of a
\* list that holds a NaN is NaN
AvgNrmse(nrmse_list) ==
    IF nrmse_list = <<>> \/ \E i \in DOMAIN nrmse_list : nrmse_list[i] = "nan"
    THEN "nan" ELSE "number"

\* the matrices handed to validate_imputation_kfold: the combined matrices
\* of a run, and matrices with a negative or zero entry off the diagonal
KfoldMatrices ==
    RunMatrices \cup {m \in Matrices : m[0][1] = 0 - 2 /\ m[1][2] = Eps}

\* lines 36-46: the entry; KFold.split raises ValueError for fewer samples
\* than folds
ValidateKfold ==
    /\ kfold.pc = "none"
    /\ \E n_splits \in 2..NRows, k \in 1..MaxK :
          LET data == KnownRows(cdc_data)
              start == [pc |-> "split", input |-> cdc_data, data |-> data,
                        k |-> k, n_splits |-> n_splits, folds |-> <<>>,
                        fold |-> 1, fold_data |-> <<>>, test_labels |-> <<>>,
                        todo |-> <<>>, calls |-> <<>>, errors |-> <<>>,
                        actual_vals |-> <<>>, mae_list |-> <<>>,
                        nrmse_list |-> <<>>, evaluated |-> <<>>,
                        metrics |-> [MAE |-> NaNVal, NRMSE |-> "nan"]]
          IN  IF Cardinality(DOMAIN data) < n_splits
              THEN kfold' = [start EXCEPT !.pc = "raised"]
              ELSE \E folds \in KFoldSplits(DOMAIN data, n_splits) :
                      kfold' = [start EXCEPT !.folds = folds]
    /\ UNCHANGED <<cdc_data, distance_matrix, pc, call, batch, search, features, outputs,
                   web, self_df, distances, event_loop>>

\* lines 48-58: the next fold: a copy of the data with the test rows masked
FoldStart ==
    /\ kfold.pc = "split"
    /\ kfold.fold <= kfold.n_splits
    /\ LET test_labels == Ascending(kfold.folds[kfold.fold])
       IN  kfold' = [kfold EXCEPT
               !.pc = "loop",
               !.test_labels = test_labels,
               !.fold_data = FoldData(kfold.data, kfold.fold_data,
                                      Range(test_labels)),
               !.todo = test_labels,
               !.errors = <<>>,
               !.actual_vals = <<>>]
    /\ UNCHANGED <<cdc_data, distance_matrix, pc, call, batch, search, features, outputs,
                   web, self_df, distances, event_loop>>

\* the body of the loop of lines 61-65 for the row whose call returned ret
AfterFoldRow(state, idx, ret) ==
    LET this == [fold |-> state.fold, index |-> idx, ret |-> ret]
    IN  IF ret.status = "ValueError"
        THEN [state EXCEPT !.pc = "raised", !.calls = Append(@, this)]
        ELSE [state EXCEPT
                 !.todo = Tail(@),
                 !.calls = Append(@, this),
                 !.errors = IF IsNaN(ret.value) THEN @
                            ELSE Append(@, RAbs(RSub(
                                     state.data[idx].Deaths_per_100k, ret.value))),
                 !.actual_vals = IF IsNaN(ret.value) THEN @
                                 ELSE Append(@, state.data[idx].Deaths_per_100k)]

\* lines 61-65: one iteration of the loop over the fold's test rows
FoldStep ==
    /\ kfold.pc = "loop"
    /\ kfold.todo # <<>>
    /\ kfold' = AfterFoldRow(kfold, Head(kfold.todo),
                    impute_death_rate(Head(kfold.todo), kfold.fold_data,
                                      distance_matrix, kfold.k, None))
    /\ UNCHANGED <<cdc_data, distance_matrix, pc, call, batch, search, features, outputs,
                   web, self_df, distances, event_loop>>

\* lines 67-86: the fold's metrics, when it has estimates
FoldEnd ==
    /\ kfold.pc = "loop"
    /\ kfold.todo = <<>>
    /\ kfold' = [kfold EXCEPT
           !.pc = "split",
           !.fold = @ + 1,
           !.mae_list = IF kfold.errors = <<>> THEN @
                        ELSE Append(@, MeanAbsoluteError(kfold.errors)),
           !.nrmse_list = IF kfold.errors = <<>> THEN @
                          ELSE Append(@, Nrmse(kfold.actual_vals)),
           !.evaluated = Append(@, kfold.actual_vals)]
    /\ UNCHANGED <<cdc_data, distance_matrix, pc, call, batch, search, features, outputs,
                   web, self_df, distances, event_loop>>

\* lines 88-117: the averaged metrics are returned
KfoldReturn ==
    /\ kfold.pc = "split"
    /\ kfold.fold > kfold.n_splits
    /\ kfold' = [kfold EXCEPT
           !.pc = "returned",
           !.metrics = [MAE |-> MeanOrNaN(kfold.mae_list),
                        NRMSE |-> AvgNrmse(kfold.nrmse_list)]]
    /\ UNCHANGED <<cdc_data, distance_matrix, pc, call, batch, search, features, outputs,
                   web, self_df, distances, event_loop>>

KfoldInit ==
    /\ cdc_data \in Frames
    /\ distance_matrix \in KfoldMatrices
    /\ pc = "idle"
    /\ call = NoCall
    /\ batch = NoBatch
    /\ search = NoSearch
    /\ features = NoFeatures
    /\ kfold = NoKfold
    /\ outputs = NoOutputs
    /\ WebInit
    /\ self_df = NoFrame
    /\ distances = NoDistances
    /\ event_loop = NoLoop

KfoldNext ==
    \/ ValidateKfold
    \/ FoldStart
    \/ FoldStep
    \/ FoldEnd
    \/ KfoldReturn

KfoldSpec == KfoldInit /\ [][KfoldNext]_vars

\* C16: while a fold is evaluated, the working copy is the filtered dataset
\* with exactly this fold's test rows masked, so rows masked by earlier folds
\* have their values back; no test row of the fold donates and every donor
\* value is an original one; the caller's dataset is never changed.
C16_FreshCopyPerFold ==
    kfold.pc # "none" =>
        /\ cdc_data = kfold.input
        /\ kfold.pc = "loop" =>
              kfold.fold_data = MaskRows(kfold.data, Range(kfold.test_labels))
        /\ \A i \in DOMAIN kfold.calls :
              LET c == kfold.calls[i] IN
              /\ DonorRows(c) \cap kfold.folds[c.fold] = {}
              /\ \A j \in DOMAIN c.ret.valid_neighbors :
                    LET d == c.ret.valid_neighbors[j]
                    IN  d.rate = kfold.input[d.row].Deaths_per_100k

\* in a later fold, a donor is a row that an earlier fold had masked
C16_Witness ==
    /\ kfold.pc \in {"loop", "split", "returned"}
    /\ \E i \in DOMAIN kfold.calls :
          LET c == kfold.calls[i] IN
          /\ c.fold > 1
          /\ \E f \in 1..(c.fold - 1) : DonorRows(c) \cap kfold.folds[f] # {}


(***************************************************************************)
(* The full imputation run: gKNNImputer.run with real_test = False and the  *)
(* assembly of its results in gKNNImputer.impute (src/gknn.py).  The        *)
(* feature selection and the search that run makes in between are modelled  *)
(* above; here their results are the matrix D_combined (distance_matrix)    *)
(* and best_k.  The held-out run that impute makes first (line 128) reads   *)
(* self.df and yields only the twenty_* outputs.                            *)
(***************************************************************************)
\* the rows of a frame in row order, relabelled 1..n (ignore_index=True,
\* reset_index(drop=True))
ResetIndex(frame) ==
    LET labels == Ascending(DOMAIN frame)
    IN  [i \in 1..Len(labels) |-> frame[labels[i]]]

\* the population tables handed to merge_cdc_missing: one row per county,
\* 'County Code' already present (src/gknn.py lines 37-39)
CodesAt(indices) == [i \in DOMAIN indices |-> Geoids[indices[i] + 1]]
MissingTables == {CodesAt(Ascending(S)) : S \in SUBSET SocioIdx}

\* src/gknn.py lines 36-67
merge_cdc_missing(cdc_df, missing) ==
    LET new_missing == [i \in DOMAIN missing |->
                           [Population |-> Num(10000),
                            County_Code |-> missing[i],
                            Socio_Index |-> geoid_to_index(missing[i]),
                            Deaths_per_100k |-> NaNVal]]
        merged_df == ResetIndex(cdc_df) \o new_missing
        duplicates == {i \in DOMAIN merged_df :
                          \E j \in DOMAIN merged_df :
                              /\ j # i
                              /\ merged_df[j].County_Code = merged_df[i].County_Code}
        to_drop == {i \in duplicates : IsNaN(merged_df[i].Deaths_per_100k)}
    IN  ResetIndex(Select(merged_df, DOMAIN merged_df \ to_drop))

\* src/gknn.py lines 181-184: map the county codes, keep the rows with a
\* socio index
FinalCdcData(merged_df) ==
    LET mapped == [r \in DOMAIN merged_df |->
                      [merged_df[r] EXCEPT
                          !.Socio_Index = geoid_to_index(merged_df[r].County_Code)]]
    IN  Select(mapped, {r \in DOMAIN mapped : mapped[r].Socio_Index # NaN})

\* a Series over the rows of a frame, in row order: label and value
SeriesOf(frame, labels) ==
    [i \in DOMAIN labels |->
        [row |-> labels[i], value |-> frame[labels[i]].Deaths_per_100k]]

\* src/validation.py line 201: cdc_file['Deaths_per_100k'].dropna()
OrigValues(cdc_file) ==
    SeriesOf(cdc_file, Ascending({r \in DOMAIN cdc_file :
                                     ~IsNaN(cdc_file[r].Deaths_per_100k)}))

\* src/validation.py line 251: cdc_file.loc[missing_indices, 'Deaths_per_100k']
ImpValues(cdc_file, missing_indices) == SeriesOf(cdc_file, missing_indices)

\* the frame as it stood when writeImputation was entered
CombinedSeries_BeforeLoop(cdc_file, entered) ==
    SeriesOf(entered, Ascending(DOMAIN entered))

\* src/validation.py line 252: cdc_file["Deaths_per_100k"].copy()
CombinedSeries(cdc_file, entered) == SeriesOf(cdc_file, Ascending(DOMAIN cdc_file))

\* sort_values('County Code'): the orders of the rows of S by ascending
\* county code; rows of one county come in any order (the default sort is
\* not stable).  The codes are zero-padded and Geoids lists them in
\* ascending order, so a code sorts as its socio index does.
RECURSIVE SortValues_CountyCode(_, _)
SortValues_CountyCode(frame, S) ==
    IF S = {} THEN {<<>>}
    ELSE LET first == Min({frame[r].Socio_Index : r \in S})
         IN  UNION {{<<r>> \o o : o \in SortValues_CountyCode(frame, S \ {r})} :
                       r \in {x \in S : frame[x].Socio_Index = first}}

\* src/gknn.py lines 257-265: the mask over final_cdc_data.index, listed in
\* the order 'order' of the county codes, the index dropped
MaskBool(final_cdc_data, missing_indices, order) ==
    [i \in DOMAIN order |->
        [County_Code |-> final_cdc_data[order[i]].County_Code,
         Deaths_per_100k |-> order[i] \in Range(missing_indices)]]

\* src/gknn.py lines 169-184 and 249, real_test = False: the population
\* table is merged in, the rows without a socio index are dropped, and
\* writeImputation(final_cdc_data, df_socio_econ, D_combined, k=best_k) is
\* entered (src/validation.py lines 198-211)
EnterWrite(started, final_cdc_data, missing_indices, k) ==
    /\ cdc_data' = final_cdc_data
    /\ batch' = [op |-> "write", input |-> final_cdc_data, k |-> k,
                 allowed_indices |-> None,
                 indices |-> missing_indices, todo |-> missing_indices,
                 calls |-> <<>>, all_neighbor_map |-> <<>>, imputed_vals |-> <<>>,
                 imp_deaths |-> <<>>, imputed_values_dict |-> <<>>]
    /\ outputs' = started

RunStart ==
    /\ pc = "idle"
    /\ outputs.pc = "none"
    /\ \E missing \in MissingTables, k \in 1..MaxK :
          EnterWrite([pc |-> "running", df |-> cdc_data, missing |-> missing,
                      merged_df |-> merge_cdc_missing(cdc_data, missing)],
                     FinalCdcData(merge_cdc_missing(cdc_data, missing)),
                     MissingIndices(FinalCdcData(merge_cdc_missing(cdc_data, missing))),
                     k)
    /\ pc' = "loop"
    /\ UNCHANGED <<distance_matrix, call, search, features, kfold, web, self_df, distances, event_loop>>

\* src/validation.py lines 251-254 and src/gknn.py lines 256-266: what
\* writeImputation hands back and what run returns
RunReturn ==
    /\ pc = "returned"
    /\ outputs.pc = "running"
    /\ \E order \in SortValues_CountyCode(cdc_data, DOMAIN cdc_data) :
          outputs' = [outputs EXCEPT !.pc = "returned"] @@
                     [orig_values |-> OrigValues(batch.input),
                      imp_values |-> ImpValues(cdc_data, batch.indices),
                      combined |-> CombinedSeries(cdc_data, batch.input),
                      mask |-> MaskBool(cdc_data, batch.indices, order),
                      final_cdc_data_copy |-> batch.input]
    /\ UNCHANGED <<cdc_data, distance_matrix, pc, call, batch, search, features,
                   kfold, web, self_df, distances, event_loop>>

\* src/gknn.py lines 130-153: the exported table is final_cdc_data_copy
\* sorted by county code; its imputed column is assigned from the values of
\* combined by position; its final column is the original filled from it
ExportedTable(final_cdc_data_copy, combined, order) ==
    [i \in DOMAIN order |->
        LET original == final_cdc_data_copy[order[i]].Deaths_per_100k
            imputed == combined[i].value
        IN  [County_Code |-> final_cdc_data_copy[order[i]].County_Code,
             Deaths_per_100k |-> original,
             Deaths_per_100k_imputed |-> imputed,
             Deaths_per_100k_final |-> IF IsNaN(original) THEN imputed
                                       ELSE original]]

\* src/gknn.py lines 129-160: impute assembles the outputs of run
ImputeAssemble ==
    /\ outputs.pc = "returned"
    /\ \E order \in SortValues_CountyCode(outputs.final_cdc_data_copy,
                                         DOMAIN outputs.final_cdc_data_copy) :
          outputs' = [outputs EXCEPT !.pc = "assembled"] @@
                     [combined_df |-> ExportedTable(outputs.final_cdc_data_copy,
                                                    outputs.combined, order)]
    /\ UNCHANGED <<cdc_data, distance_matrix, pc, call, batch, search, features,
                   kfold, web, self_df, distances, event_loop>>

RunInit ==
    /\ cdc_data \in Frames
    /\ distance_matrix \in {m \in RunMatrices : m[0][1] = Eps}
    /\ pc = "idle"
    /\ call = NoCall
    /\ batch = NoBatch
    /\ search = NoSearch
    /\ features = NoFeatures
    /\ kfold = NoKfold
    /\ outputs = NoOutputs
    /\ WebInit
    /\ self_df = NoFrame
    /\ distances = NoDistances
    /\ event_loop = NoLoop

RunNext ==
    \/ RunStart
    \/ WriteStep
    \/ WriteReturn
    \/ RunReturn
    \/ ImputeAssemble

RunSpec == RunInit /\ [][RunNext]_vars

\* the county codes of the rows of a frame
CountyCodes(frame) == {frame[r].County_Code : r \in DOMAIN frame}

\* the values the run holds for county c once writeImputation has returned
ComputedFor(c) ==
    {cdc_data[r].Deaths_per_100k : r \in {x \in DOMAIN cdc_data :
                                              cdc_data[x].County_Code = c}}

\* C17: in the assembled outputs of impute, position i of the mask, position
\* i of the combined series and row i of the exported table refer to the
\* same county, and the imputed and final values of row i are values the run
\* computed for that county, whatever the row order of the input.
C17_OutputsAlignedByCounty ==
    outputs.pc = "assembled" =>
        \A i \in DOMAIN outputs.combined_df :
            LET c == outputs.mask[i].County_Code
                t == outputs.combined_df[i]
            IN  /\ t.County_Code = c
                /\ outputs.final_cdc_data_copy[outputs.combined[i].row].County_Code = c
                /\ t.Deaths_per_100k_imputed \in ComputedFor(c)
                /\ t.Deaths_per_100k_final \in ComputedFor(c)

\* C18: after merge_cdc_missing every county code of the primary dataset or
\* of the population table has a row in the merged dataset, and every known
\* target value of the primary dataset is still carried by a row of its
\* county.
C18_MergeKeepsEveryCounty ==
    outputs.pc # "none" =>
        /\ CountyCodes(outputs.df) \cup Range(outputs.missing)
              \subseteq CountyCodes(outputs.merged_df)
        /\ \A r \in DOMAIN outputs.df :
              ~IsNaN(outputs.df[r].Deaths_per_100k) =>
                  \E i \in DOMAIN outputs.merged_df :
                      outputs.merged_df[i] = outputs.df[r]

\* the estimate the loop of writeImputation obtained for row r
EstimateFor(r) ==
    LET i == CHOOSE j \in DOMAIN batch.calls : batch.calls[j].index = r
    IN  batch.calls[i].ret.value

\* C19: when a full run has returned, the combined series carries for every
\* row of the dataset the original target value where it was known and the
\* row's estimate where it was null; the original-values output holds
\* exactly the known original values; and the mask is True exactly for the
\* counties whose original target was null.
C19_RunResult ==
    outputs.pc \in {"returned", "assembled"} =>
        LET original == outputs.final_cdc_data_copy
            known == {r \in DOMAIN original : ~IsNaN(original[r].Deaths_per_100k)}
        IN  /\ {outputs.combined[i].row : i \in DOMAIN outputs.combined}
                  = DOMAIN original
            /\ Len(outputs.combined) = Cardinality(DOMAIN original)
            /\ \A i \in DOMAIN outputs.combined :
                  LET r == outputs.combined[i].row
                  IN  outputs.combined[i].value =
                          IF r \in known THEN original[r].Deaths_per_100k
                          ELSE EstimateFor(r)
            /\ Range(outputs.orig_values) =
                  {[row |-> r, value |-> original[r].Deaths_per_100k] : r \in known}
            /\ Len(outputs.orig_values) = Cardinality(known)
            /\ Len(outputs.mask) = Cardinality(DOMAIN original)
            /\ \A r \in DOMAIN original :
                  \E i \in DOMAIN outputs.mask :
                      /\ outputs.mask[i].County_Code = original[r].County_Code
                      /\ outputs.mask[i].Deaths_per_100k = (r \notin known)
            /\ \A i \in DOMAIN outputs.mask :
                  outputs.mask[i].Deaths_per_100k =
                      \E r \in DOMAIN original \ known :
                          original[r].County_Code = outputs.mask[i].County_Code

\* a run over known and null rows has returned: a null row carries a finite
\* estimate in the combined series and the mask lists a True and a False
C19_Witness ==
    /\ outputs.pc = "returned"
    /\ \E i, j \in DOMAIN outputs.combined :
          /\ IsNaN(outputs.final_cdc_data_copy[outputs.combined[i].row].Deaths_per_100k)
          /\ ~IsNaN(outputs.combined[i].value)
          /\ ~IsNaN(outputs.final_cdc_data_copy[outputs.combined[j].row].Deaths_per_100k)
    /\ \E i, j \in DOMAIN outputs.mask :
          outputs.mask[i].Deaths_per_100k /\ ~outputs.mask[j].Deaths_per_100k

(***************************************************************************)
(* The web application (src/app.py): upload, datatype configuration, the    *)
(* impute endpoint with its cache, and the status endpoint.                 *)
(***************************************************************************)
\* what a handler answers: the request, the HTTP status, the body, and
\* whether the handler ran an imputer
Respond(endpoint, session_id, algo, columns, iterations, status, body, ran) ==
    response' = [endpoint |-> endpoint, session_id |-> session_id, algo |-> algo,
                 columns |-> columns, iterations |-> iterations,
                 status |-> status, body |-> body, ran |-> ran]

\* src/app.py lines 105-126: /dataframe/post stores the upload under a
\* fresh session id
Upload ==
    /\ \E s \in Sessions, d \in Datasets :
          /\ session_store[s] = NoDataset
          /\ session_store' = [session_store EXCEPT ![s] = d]
          /\ Respond("post", s, "", "", 0, 200, NoResult, FALSE)
    /\ UNCHANGED <<imputation_store, completed>>
    /\ UNCHANGED <<cdc_data, distance_matrix, pc, call, batch, search, features,
                   kfold, outputs, self_df, distances, event_loop>>

\* src/app.py lines 152-210: /datatype/configure replaces the session's
\* dataset by the uploaded file, which may have no rows
ConfigureDatatype ==
    /\ \E s \in Sessions, d \in Datasets \cup {EmptyDataset} :
          /\ session_store[s] # NoDataset
          /\ session_store' = [session_store EXCEPT ![s] = d]
          /\ Respond("configure", s, "", "", 0, 200, NoResult, FALSE)
    /\ UNCHANGED <<imputation_store, completed>>
    /\ UNCHANGED <<cdc_data, distance_matrix, pc, call, batch, search, features,
                   kfold, outputs, self_df, distances, event_loop>>

\* src/app.py lines 325-393 once the parameters are accepted: 'locals' holds
\* the handler's local names after the cache branch (lines 327-381); line
\* 383 reads downloadable_csv, which only the miss branch binds
FinishImpute(session_id, algo, text, iterations, key, hit, locals) ==
    IF locals.status # 200
    THEN /\ Respond("impute", session_id, algo, text, iterations, locals.status,
                    NoResult, locals.ran)
         /\ UNCHANGED <<imputation_store, completed>>
    ELSE IF ~locals.downloadable_csv
    THEN \* UnboundLocalError on line 392
         /\ Respond("impute", session_id, algo, text, iterations, 500, NoResult,
                    locals.ran)
         /\ UNCHANGED <<imputation_store, completed>>
    ELSE /\ Respond("impute", session_id, algo, text, iterations, 200,
                    locals.result, locals.ran)
         /\ imputation_store' =
               [imputation_store EXCEPT
                   ![key] = IF hit THEN @
                            ELSE [result |-> locals.result,
                                  downloadable_csv |-> FALSE],
                   ![session_key(session_id)] =
                       [result |-> locals.result, downloadable_csv |-> TRUE]]
         /\ completed' = IF completed[key] = NoResult
                         THEN [completed EXCEPT ![key] = locals.result]
                         ELSE completed

\* the names bound by the cache branch of impute_api (src/app.py lines
\* 327-381): on a hit the cached components; on a miss the outputs of
\* imputer.impute(), which returns ('outcome' in Results) or raises
\* ('outcome' = NoResult); "bart" binds no imputer, other names are refused
CacheBranch(entry, algo, outcome) ==
    IF entry # NoEntry
    THEN [status |-> 200, result |-> entry.result, downloadable_csv |-> FALSE,
          ran |-> FALSE]
    ELSE IF algo \in {"mice", "gknn"}
    THEN IF outcome = NoResult
         THEN [status |-> 500, result |-> NoResult, downloadable_csv |-> FALSE,
               ran |-> TRUE]
         ELSE [status |-> 200, result |-> outcome, downloadable_csv |-> TRUE,
               ran |-> TRUE]
    ELSE [status |-> IF algo = "bart" THEN 500 ELSE 400, result |-> NoResult,
          downloadable_csv |-> FALSE, ran |-> FALSE]

\* src/app.py lines 303-401: /dataframe/impute
ImputeRequest ==
    /\ \E session_id \in Sessions, algo \in Algos, text \in ColumnsTexts,
          iterations \in Iterations, outcome \in Results \cup {NoResult} :
          IF \/ session_store[session_id] \in {NoDataset, EmptyDataset}
             \/ json_loads(text) = JSONDecodeError
          THEN /\ Respond("impute", session_id, algo, text, iterations, 400,
                          NoResult, FALSE)
               /\ UNCHANGED <<imputation_store, completed>>
          ELSE FinishImpute(session_id, algo, text, iterations,
                   cache_key(session_id, algo, json_loads(text), iterations),
                   imputation_store[cache_key(session_id, algo, json_loads(text),
                                              iterations)] # NoEntry,
                   CacheBranch(imputation_store[cache_key(session_id, algo,
                                   json_loads(text), iterations)], algo, outcome))
    /\ UNCHANGED session_store
    /\ UNCHANGED <<cdc_data, distance_matrix, pc, call, batch, search, features,
                   kfold, outputs, self_df, distances, event_loop>>

\* src/app.py lines 404-430: /dataframe/impute/status
ImputeStatus ==
    /\ \E session_id \in Sessions, algo \in Algos, text \in ColumnsTexts,
          iterations \in Iterations :
          IF \/ session_store[session_id] \in {NoDataset, EmptyDataset}
             \/ json_loads(text) = JSONDecodeError
          THEN Respond("status", session_id, algo, text, iterations, 400,
                       NoResult, FALSE)
          ELSE Respond("status", session_id, algo, text, iterations, 200,
                       IF imputation_store[cache_key(session_id, algo,
                              json_loads(text), iterations)] # NoEntry
                       THEN 1 ELSE 0,
                       FALSE)
    /\ UNCHANGED <<session_store, imputation_store, completed>>
    /\ UNCHANGED <<cdc_data, distance_matrix, pc, call, batch, search, features,
                   kfold, outputs, self_df, distances, event_loop>>

AppInit ==
    /\ cdc_data = <<>>
    /\ distance_matrix = <<>>
    /\ pc = "idle"
    /\ call = NoCall
    /\ batch = NoBatch
    /\ search = NoSearch
    /\ features = NoFeatures
    /\ kfold = NoKfold
    /\ outputs = NoOutputs
    /\ WebInit
    /\ self_df = NoFrame
    /\ distances = NoDistances
    /\ event_loop = NoLoop

AppNext ==
    \/ Upload
    \/ ConfigureDatatype
    \/ ImputeRequest
    \/ ImputeStatus

AppSpec == AppInit /\ [][AppNext]_vars

\* the cache key of the request that 'response' answers
KeyOf(r) == cache_key(r.session_id, r.algo, json_loads(r.columns), r.iterations)

\* C20: once an impute request for a key has completed successfully, every
\* later impute request with that key answers successfully with the result
\* of the first, without running an imputer, and every later status request
\* with that key answers that the key is cached.
C20_CachedKeyServed ==
    [][(/\ response' # response
        /\ response'.endpoint \in {"impute", "status"}
        /\ json_loads(response'.columns) # JSONDecodeError
        /\ completed[KeyOf(response')] # NoResult)
       => /\ response'.status = 200
          /\ ~response'.ran
          /\ response'.body = IF response'.endpoint = "impute"
                              THEN completed[KeyOf(response')] ELSE 1]_vars

(***************************************************************************)
(* gKNNImputer.impute as a whole (src/gknn.py lines 124-160): the held-out  *)
(* run on self.df, then the full run on self.df, then the assembly.         *)
(***************************************************************************)
\* variant: run works on the caller's frame itself, so what the held-out
\* phase wrote to its rows shows in self.df
DfAfterRun_Shared(df, final_cdc_data) ==
    [r \in DOMAIN df |->
        IF r \in DOMAIN final_cdc_data THEN final_cdc_data[r] ELSE df[r]]

\* src/gknn.py lines 169-187: self.df as a run leaves it; run copies df on
\* line 169 and every frame it masks or writes to (final_cdc_data) is a copy
\* of a selection of that copy
DfAfterRun(df, final_cdc_data) == df

\* src/gknn.py line 128, run lines 169-222 with death_threshold = ['random']
\* and real_test = True: a random fifth of the known rows is held out and
\* validate_imputation_testset is entered
HeldOutPhase ==
    /\ pc = "idle"
    /\ batch.op = "none"
    /\ \E S \in SUBSET Rows, k \in 1..MaxK :
          /\ S \subseteq DOMAIN HeldOutFrame(self_df)
          /\ Cardinality(S) = SampleSize(Cardinality(DOMAIN HeldOutFrame(self_df)))
          /\ \E test_idx \in Orders(S) :
                StartTestset("run", test_idx, HeldOutFrame(self_df), k, None)

\* src/gknn.py line 129, run lines 169-184 and 249 with real_test = False:
\* once the held-out run has returned its twenty_* outputs, the full run
\* starts from self.df
FullPhase ==
    /\ pc = "returned"
    /\ batch.op = "run"
    /\ outputs.pc = "none"
    /\ self_df' = DfAfterRun(self_df, cdc_data)
    /\ \E missing \in MissingTables, k \in 1..MaxK :
          EnterWrite([pc |-> "running", df |-> self_df', missing |-> missing,
                      merged_df |-> merge_cdc_missing(self_df', missing),
                      twenty_imp |-> SeriesOf(cdc_data, batch.indices),
                      twenty_true |-> SeriesOf(batch.input, batch.indices)],
                     FinalCdcData(merge_cdc_missing(self_df', missing)),
                     MissingIndices(FinalCdcData(merge_cdc_missing(self_df', missing))),
                     k)
    /\ pc' = "loop"
    /\ UNCHANGED <<distance_matrix, call, search, features, kfold, web, distances, event_loop>>

ImputeInit ==
    /\ self_df \in Frames
    /\ distances = NoDistances
    /\ event_loop = NoLoop
    /\ cdc_data = NoFrame
    /\ distance_matrix \in {m \in RunMatrices : m[0][1] = Eps}
    /\ pc = "idle"
    /\ call = NoCall
    /\ batch = NoBatch
    /\ search = NoSearch
    /\ features = NoFeatures
    /\ kfold = NoKfold
    /\ outputs = NoOutputs
    /\ WebInit

ImputeNext ==
    \/ HeldOutPhase
    \/ TestsetStep
    \/ TestsetReturn
    \/ FullPhase
    \/ WriteStep
    \/ WriteReturn
    \/ RunReturn
    \/ ImputeAssemble

ImputeSpec == ImputeInit /\ [][ImputeNext]_vars

\* C21: no step of impute changes the dataset the imputer holds, and the
\* full imputation phase starts with every held-out test row carrying the
\* target value it had before the held-out phase masked it.
C21_HeldOutOnCopy ==
    [][/\ self_df' = self_df
       /\ (outputs.pc = "none" /\ outputs'.pc = "running") =>
             \A i \in DOMAIN outputs'.twenty_true :
                 LET t == outputs'.twenty_true[i] IN
                 /\ outputs'.df[t.row].Deaths_per_100k = t.value
                 /\ \E r \in DOMAIN cdc_data' :
                       /\ cdc_data'[r].County_Code = self_df[t.row].County_Code
                       /\ cdc_data'[r].Deaths_per_100k = t.value]_vars

\* the full phase runs after a held-out phase whose working copy ended with
\* an estimate in place of a test row's original value
C21_Witness ==
    /\ outputs.pc \in {"running", "returned", "assembled"}
    /\ \E i \in DOMAIN outputs.twenty_true :
          /\ ~IsNaN(outputs.twenty_imp[i].value)
          /\ outputs.twenty_imp[i].value # outputs.twenty_true[i].value

(***************************************************************************)
(* The distance matrices (src/distance.py) and their blend (src/gknn.py     *)
(* line 218).  A feature table has one numeric column, so the euclidean     *)
(* distance of two rows is the absolute difference of their values; the     *)
(* geographic points lie on one meridian.  Floats are exact rationals and   *)
(* 0/0 is NaN, as numpy computes it.                                        *)
(***************************************************************************)
FeatureTables == UNION {[1..n -> 0..MaxCoord] : n \in 1..MaxPoints}

\* squareform(pdist(data, metric="euclidean")): pdist of a single row is the
\* empty vector, whose square form is the 1 x 1 zero matrix
Squareform(data) ==
    [i \in DOMAIN data |-> [j \in DOMAIN data |-> Num(Abs(data[i] - data[j]))]]

Entries(D) == {D[i][j] : i \in DOMAIN D, j \in DOMAIN D}
\* D.min() and D.max() of a matrix of finite entries
MatMin(D) == CHOOSE x \in Entries(D) : \A y \in Entries(D) : ~RLess(y, x)
MatMax(D) == CHOOSE x \in Entries(D) : \A y \in Entries(D) : ~RLess(x, y)

RDivide(a, b) == Rat(a[1] * b[2], a[2] * b[1])

\* (D - D.min()) / (D.max() - D.min()), elementwise
MinMaxScale(D, lo, hi) ==
    [i \in DOMAIN D |-> [j \in DOMAIN D |->
        RDivide(RSub(D[i][j], lo), RSub(hi, lo))]]

\* src/distance.py lines 6-17: no statement of the function raises for a
\* table of one row or more
compute_socio_distance(df) ==
    [status |-> "returned",
     value |-> MinMaxScale(Squareform(df), MatMin(Squareform(df)),
                           MatMax(Squareform(df)))]

\* src/distance.py lines 42-53
compute_geo_distance(df) ==
    [status |-> "returned",
     value |-> MinMaxScale(Squareform(df), MatMin(Squareform(df)),
                           MatMax(Squareform(df)))]

\* src/gknn.py line 218: best_alpha * Dsoc + best_beta * Dgeo, beta = 1 - alpha
Blend(alpha, Dsoc, Dgeo) ==
    [i \in DOMAIN Dsoc |-> [j \in DOMAIN Dsoc |->
        RAdd(RMul(alpha, Dsoc[i][j]), RMul(RSub(Num(1), alpha), Dgeo[i][j]))]]

\* src/gknn.py line 208: Dsoc = compute_socio_distance(socio_data)
ComputeSocio ==
    /\ distances.pc = "tables"
    /\ distances' = [distances EXCEPT !.pc = "socio"] @@
                    [Dsoc |-> compute_socio_distance(distances.socio_data)]
    /\ UNCHANGED <<cdc_data, distance_matrix, pc, call, batch, search, features,
                   kfold, outputs, web, self_df, event_loop>>

\* src/gknn.py line 209: Dgeo = compute_geo_distance(geo_data)
ComputeGeo ==
    /\ distances.pc = "socio"
    /\ distances.Dsoc.status = "returned"
    /\ distances' = [distances EXCEPT !.pc = "geo"] @@
                    [Dgeo |-> compute_geo_distance(distances.geo_data)]
    /\ UNCHANGED <<cdc_data, distance_matrix, pc, call, batch, search, features,
                   kfold, outputs, web, self_df, event_loop>>

\* src/gknn.py lines 216-218: the blend for an alpha in [0, 1]
BlendMatrices ==
    /\ distances.pc = "geo"
    /\ distances.Dgeo.status = "returned"
    /\ \E a \in 0..AlphaDen :
          distances' = [distances EXCEPT !.pc = "blended"] @@
                       [alpha |-> Rat(a, AlphaDen),
                        D_combined |-> Blend(Rat(a, AlphaDen),
                                             distances.Dsoc.value,
                                             distances.Dgeo.value)]
    /\ UNCHANGED <<cdc_data, distance_matrix, pc, call, batch, search, features,
                   kfold, outputs, web, self_df, event_loop>>

\* the two tables describe the same rows of the reference table
DistanceInit ==
    /\ \E socio_data \in FeatureTables, geo_data \in FeatureTables :
          /\ DOMAIN socio_data = DOMAIN geo_data
          /\ distances = [pc |-> "tables", socio_data |-> socio_data,
                          geo_data |-> geo_data]
    /\ cdc_data = NoFrame
    /\ distance_matrix = <<>>
    /\ pc = "idle"
    /\ call = NoCall
    /\ batch = NoBatch
    /\ search = NoSearch
    /\ features = NoFeatures
    /\ kfold = NoKfold
    /\ outputs = NoOutputs
    /\ WebInit
    /\ self_df = NoFrame
    /\ event_loop = NoLoop

DistanceNext ==
    \/ ComputeSocio
    \/ ComputeGeo
    \/ BlendMatrices

DistanceSpec == DistanceInit /\ [][DistanceNext]_vars

\* a matrix is symmetric, zero on the diagonal, finite and within [0, 1]
WellFormed(D) ==
    \A i, j \in DOMAIN D :
        /\ D[i][j] = D[j][i]
        /\ D[i][i] = Num(0)
        /\ ~IsNaN(D[i][j])
        /\ ~RLess(D[i][j], Num(0))
        /\ ~RLess(Num(1), D[i][j])

\* C22: for every table of two rows or more, the matrix that
\* compute_socio_distance or compute_geo_distance returns is symmetric,
\* zero on the diagonal and has finite entries in [0, 1], and so is every
\* blend of the two with an alpha in [0, 1].
C22_MatricesWellFormed ==
    (distances.pc # "none" /\ Len(distances.socio_data) >= 2) =>
        /\ (distances.pc \in {"socio", "geo", "blended"}
               /\ distances.Dsoc.status = "returned") =>
              WellFormed(distances.Dsoc.value)
        /\ (distances.pc \in {"geo", "blended"}
               /\ distances.Dgeo.status = "returned") =>
              WellFormed(distances.Dgeo.value)
        /\ distances.pc = "blended" => WellFormed(distances.D_combined)

\* C23: compute_socio_distance raises for a table of fewer than two rows
\* and returns no matrix for it.
C23_SocioNeedsTwoRows ==
    (distances.pc \in {"socio", "geo", "blended"}
        /\ Len(distances.socio_data) < 2) =>
        distances.Dsoc.status = "raised"

\* the known target values of the dataset that the k-fold validation works on
KnownTargets == {kfold.data[r].Deaths_per_100k : r \in DOMAIN kfold.data}

\* C24: when the k-fold validation returns and has evaluated at least one
\* row, the reported MAE is at least 0 and at most the range (max - min) of
\* the known target values of the validated dataset.
C24_MaeWithinRange ==
    (kfold.pc = "returned" /\ kfold.mae_list # <<>>) =>
        /\ ~IsNaN(kfold.metrics.MAE)
        /\ ~RLess(kfold.metrics.MAE, Num(0))
        /\ ~RLess(RangeVal(KnownTargets), kfold.metrics.MAE)

\* a validation has returned a positive MAE averaged over two folds or more
C24_Witness ==
    /\ kfold.pc = "returned"
    /\ Len(kfold.mae_list) >= 2
    /\ RLess(Num(0), kfold.metrics.MAE)

\* C25: when the k-fold validation returns and some fold has evaluated rows
\* whose actual target values are not all equal, the reported NRMSE is a
\* number.
C25_NrmseDefined ==
    (/\ kfold.pc = "returned"
     /\ \E f \in DOMAIN kfold.evaluated :
           Cardinality(Range(kfold.evaluated[f])) >= 2)
        => kfold.metrics.NRMSE = "number"

(***************************************************************************)
(* Estimated counts (src/validation.py lines 153 and 216-228): the batches  *)
(* on datasets whose 'Population' column holds numbers, NaN or the text     *)
(* "Not Available".                                                         *)
(***************************************************************************)
\* datasets with one row per county of the reference table, the target known
\* or missing, any population
CountFrames ==
    {[r \in Rows |-> [County_Code |-> Geoids[r], Socio_Index |-> r - 1,
                      Deaths_per_100k |-> v[r], Population |-> p[r]]] :
        v \in [Rows -> {NaNVal, Val(1)}], p \in [Rows -> Populations]}

CountInit ==
    /\ cdc_data \in CountFrames
    /\ distance_matrix \in {m \in RunMatrices : m[0][1] = Eps /\ m[0][2] = Eps}
    /\ pc = "idle"
    /\ call = NoCall
    /\ batch = NoBatch
    /\ search = NoSearch
    /\ features = NoFeatures
    /\ kfold = NoKfold
    /\ outputs = NoOutputs
    /\ WebInit
    /\ self_df = NoFrame
    /\ distances = NoDistances
    /\ event_loop = NoLoop

CountSpec == CountInit /\ [][BatchNext]_vars

\* the estimated counts a batch has computed so far
EstimatedCounts ==
    Range(batch.imp_deaths)
        \cup {batch.imputed_values_dict[i] : i \in DOMAIN batch.imputed_values_dict}

\* C26: in held-out evaluation and in full imputation, no estimated count
\* computed for an imputed row exceeds the ceiling, and a row of unknown
\* population gets none (NaN).
C26_CountsClipped ==
    /\ \A c \in EstimatedCounts : IsNaN(c) \/ ~RLess(Num(Ceiling), c)
    /\ \A i \in DOMAIN batch.imp_deaths :
          IsNaN(batch.input[batch.indices[i]].Population) =>
              IsNaN(batch.imp_deaths[i])
    /\ \A i \in DOMAIN batch.imputed_values_dict :
          IsNaN(ReplaceNotAvailable(batch.input)[i].Population) =>
              IsNaN(batch.imputed_values_dict[i])

\* the calls of the running batch that produced an estimate
EstimatedCalls ==
    {i \in DOMAIN batch.calls :
        batch.calls[i].ret.status = "ok" /\ ~IsNaN(batch.calls[i].ret.value)}

\* C27: the neighbor map accumulated over a batch is write-once per imputed
\* row: every key was written by exactly one call of the batch, and the map
\* has as many keys as rows have received an estimate.
C27_NeighborMapWriteOnce ==
    /\ \A key \in DOMAIN batch.all_neighbor_map :
          Cardinality({i \in DOMAIN batch.calls :
                          key \in DOMAIN batch.calls[i].ret.neighbor_map}) = 1
    /\ Cardinality(DOMAIN batch.all_neighbor_map) = Cardinality(EstimatedCalls)

\* C28: a call of impute_death_rate that returns an estimate returns a map
\* with exactly one key, the county code of the target row; its value lists
\* one county code per accepted donor, in the order of acceptance, which is
\* by non-decreasing distance, and each is the county code of the row whose
\* target value was used.
C28_ProvenanceMap ==
    (pc = "returned" /\ call.ret.status = "ok" /\ ~IsNaN(call.ret.value)) =>
        LET key == cdc_data[call.index].County_Code
            listed == call.ret.neighbor_map[key]
        IN  /\ DOMAIN call.ret.neighbor_map = {key}
            /\ Len(listed) = Len(Donors)
            /\ \A i \in DOMAIN Donors :
                  listed[i] = cdc_data[Donors[i].row].County_Code
            /\ \A i, j \in DOMAIN Donors :
                  i < j => DistRow[Donors[i].socio] <= DistRow[Donors[j].socio]

\* a call returned an estimate for a row that is not the first of the frame,
\* from a donor row that is not the first row of its county
C28_Witness ==
    /\ pc = "returned" /\ call.ret.status = "ok" /\ ~IsNaN(call.ret.value)
    /\ call.index # 1
    /\ \E i \in DOMAIN Donors :
          Donors[i].row # Head(DonorRowsOf(cdc_data, Donors[i].socio))

(***************************************************************************)
(* Concurrent impute requests (src/app.py lines 303-401 and 724).  The      *)
(* server is one uvicorn process with one event loop; impute_api is a       *)
(* coroutine without an await, so once the loop has entered it no other     *)
(* handler runs until it returns or raises.  The handler is cut where       *)
(* imputer.impute() is called (line 352), to tell the requests whose        *)
(* computation is in flight from those that wait.                           *)
(***************************************************************************)
MaxRequests == 3
\* the request parameters of the clients
ConcAlgos == {"mice", "gknn"}
ConcRequests ==
    [session_id : Sessions, algo : ConcAlgos, columns : {"[\"a\"]"},
     iterations : {1}]
\* the cache key of a request (src/app.py line 326)
RequestKey(r) ==
    cache_key(r.session_id, r.algo, json_loads(r.columns), r.iterations)

\* a client sends an impute request; the handler has not been entered yet
Arrive ==
    /\ Len(event_loop.requests) < MaxRequests
    /\ \E r \in ConcRequests :
          event_loop' =
              [event_loop EXCEPT
                  !.requests =
                      Append(@, [request |-> r,
                                 seen_started |-> RequestKey(r) \in event_loop.started,
                                 computed |-> FALSE]),
                  !.pending = @ \cup {Len(event_loop.requests) + 1}]
    /\ UNCHANGED <<web, cdc_data, distance_matrix, pc, call, batch, search,
                   features, kfold, outputs, self_df, distances>>

\* the event loop enters a handler only when no coroutine is running
LoopFree(in_flight) == in_flight = {}

\* src/app.py lines 303-352 and, on a cache hit, to the end: the loop enters
\* the handler of a waiting request; on a miss imputer.impute() is called
BeginImpute ==
    /\ LoopFree(event_loop.in_flight)
    /\ \E id \in event_loop.pending :
          LET r == event_loop.requests[id].request
              key == RequestKey(r)
              hit == imputation_store[key] # NoEntry
          IN  IF hit
              THEN /\ FinishImpute(r.session_id, r.algo, r.columns, r.iterations,
                                   key, TRUE,
                                   CacheBranch(imputation_store[key], r.algo,
                                               NoResult))
                   /\ event_loop' = [event_loop EXCEPT !.pending = @ \ {id}]
              ELSE /\ event_loop' =
                          [event_loop EXCEPT
                              !.pending = @ \ {id},
                              !.in_flight = @ \cup {id},
                              !.started = @ \cup {key},
                              !.requests[id].computed = TRUE]
                   /\ UNCHANGED <<imputation_store, response, completed>>
    /\ UNCHANGED session_store
    /\ UNCHANGED <<cdc_data, distance_matrix, pc, call, batch, search, features,
                   kfold, outputs, self_df, distances>>

\* src/app.py lines 352-401: imputer.impute() returns or raises, and the
\* handler stores the result and answers
EndImpute ==
    /\ \E id \in event_loop.in_flight, outcome \in Results \cup {NoResult} :
          LET r == event_loop.requests[id].request
              key == RequestKey(r)
          IN  /\ FinishImpute(r.session_id, r.algo, r.columns, r.iterations, key,
                              FALSE, CacheBranch(NoEntry, r.algo, outcome))
              /\ event_loop' = [event_loop EXCEPT !.in_flight = @ \ {id}]
    /\ UNCHANGED session_store
    /\ UNCHANGED <<cdc_data, distance_matrix, pc, call, batch, search, features,
                   kfold, outputs, self_df, distances>>

\* every session holds an uploaded dataset
ConcInit ==
    /\ cdc_data = <<>>
    /\ distance_matrix = <<>>
    /\ pc = "idle"
    /\ call = NoCall
    /\ batch = NoBatch
    /\ search = NoSearch
    /\ features = NoFeatures
    /\ kfold = NoKfold
    /\ outputs = NoOutputs
    /\ session_store = [s \in Sessions |-> "d1"]
    /\ imputation_store = [key \in StoreKeys |-> NoEntry]
    /\ response = NoResponse
    /\ completed = [key \in CacheKeys |-> NoResult]
    /\ self_df = NoFrame
    /\ distances = NoDistances
    /\ event_loop = NoLoop

ConcNext ==
    \/ Arrive
    \/ BeginImpute
    \/ EndImpute

ConcSpec == ConcInit /\ [][ConcNext]_vars

\* the requests whose computation for this key is in flight
InFlight(key) ==
    {id \in event_loop.in_flight : RequestKey(event_loop.requests[id].request) = key}

\* C29: at most one imputation computation per cache key is in flight, and
\* a request that arrived for a key whose computation had started never
\* starts a second computation for that key.
C29_SingleFlight ==
    /\ \A key \in CacheKeys : Cardinality(InFlight(key)) <= 1
    /\ \A id \in DOMAIN event_loop.requests :
          event_loop.requests[id].seen_started => ~event_loop.requests[id].computed

(***************************************************************************)
(* The evaluation set of the search (src/gridSearch.py lines 100-102,       *)
(* 125-129): bayesian_search called with fewer samples than there are known *)
(* rows, as num_samples = 300 is for a table of all counties, and called    *)
(* again on the same inputs.                                                *)
(***************************************************************************)
\* the sample sizes tried, below the number of known rows
MaxSamples == 2

\* the socio-economic matrices tried: counties 0 and 2 lie farthest apart, 0
\* and 1 nearest
SocioMatrices ==
    {m \in ScaledMatrices : m[0][2] = MaxDist /\ m[0][1] = Eps}

\* src/gridSearch.py lines 125-128: bayesian_search(cdc_data, socio_data,
\* geo_data, target, num_samples)
BayesianSearchSampled ==
    /\ search.pc = "none"
    /\ \E Dsoc \in SocioMatrices, Dgeo \in GeoMatrices, num_samples \in 1..MaxSamples :
          search' = CreateStudy(Dsoc, Dgeo, num_samples, <<>>)
    /\ UNCHANGED <<cdc_data, distance_matrix, pc, call, batch, features, kfold, outputs,
                   web, self_df, distances, event_loop>>

\* bayesian_search is called a second time with the arguments of the first
SearchAgain ==
    /\ search.pc = "returned"
    /\ search.earlier = <<>>
    /\ search' = CreateStudy(search.Dsoc, search.Dgeo, search.num_samples,
                             search.samples)
    /\ UNCHANGED <<cdc_data, distance_matrix, pc, call, batch, features, kfold, outputs,
                   web, self_df, distances, event_loop>>

\* one row per county, every target known
SampleInit ==
    /\ cdc_data \in {HeldOutFrame(f) : f \in
                        {g \in Frames : \A r \in Rows :
                            /\ g[r].County_Code = Geoids[r]
                            /\ ~IsNaN(g[r].Deaths_per_100k)}}
    /\ distance_matrix = [i \in SocioIdx |-> [j \in SocioIdx |-> 0]]
    /\ pc = "idle"
    /\ call = NoCall
    /\ batch = NoBatch
    /\ search = NoSearch
    /\ features = NoFeatures
    /\ kfold = NoKfold
    /\ outputs = NoOutputs
    /\ WebInit
    /\ self_df = NoFrame
    /\ distances = NoDistances
    /\ event_loop = NoLoop

SampleNext ==
    \/ BayesianSearchSampled
    \/ Trial
    \/ SearchReturn
    \/ SearchAgain

SampleSpec == SampleInit /\ [][SampleNext]_vars

\* C30: within one search every trial is scored on the same set of rows, and
\* a second search on the same inputs scores its trials on the rows of the
\* first.
C30_EvaluationSetReproducible ==
    search.pc # "none" =>
        /\ \A i, j \in DOMAIN search.samples :
              Range(search.samples[i]) = Range(search.samples[j])
        /\ \A i \in DOMAIN search.samples, j \in DOMAIN search.earlier :
              Range(search.samples[i]) = Range(search.earlier[j])

=============================================================================
